---- MODULE Spec2Model ----
(***************************************************************************)
(* Stream correlation pipeline of the conversation WebSocket:              *)
(*   - ToneAggregator   (backend/app/services/tone_aggregator.py)          *)
(*   - ProsodyBuffer    (backend/app/services/prosody_buffer.py)           *)
(*   - conversation_ws  (backend/app/routers/conversation.py)              *)
(* and the StabilityFilter of the sign recognizer (ml/utils.py).           *)
(*                                                                         *)
(* Units.  Time is counted in ticks of 0.1 s (the monitor loop's sleep),   *)
(* so 10.0 s of retention is 100 ticks.  Confidence is counted in          *)
(* thousandths (0.3 is 300), the overlap ratio in hundredths (0.3 is 30).  *)
(* Arithmetic is exact: the floats of the source are modelled as the       *)
(* rationals they denote.                                                  *)
(***************************************************************************)
EXTENDS Integers, Sequences, FiniteSets, TLC

VARIABLES
    samples,      \* ToneAggregator._samples: sequence of ToneSample
    lastOp,       \* the operation applied last and its arguments (history)
    aggResult,    \* what aggregate_for_utterance returned last
    now,          \* time.time(), in ticks
    running,      \* ProsodyBuffer._running
    buffer,       \* ProsodyBuffer.buffer: sequence of [len, ts]
    timing,       \* last_analysis_time, last_analyzed_buffer_end,
                  \* last_append_time (and tone_analyzer, where it may
                  \* be missing)
    last_tone,    \* ProsodyBuffer.last_tone (current_tone is set with it)
    tasks,        \* every analysis task created so far, with its position
    analysis_task,\* ProsodyBuffer.analysis_task: index into tasks, 0 = None
    monitor,      \* the monitor task: position, slept, cancel requested
    rx,           \* the receive loop: position and locals
    session,      \* is_listening, use_web_speech_for_utterances
    udict,        \* the pending-entry dicts ever created, by utterance id
    pending_utterances, \* the list: sequence of utterance ids
    sent,         \* what the client was sent (history): the events of each
                  \* utterance id in their order, the last status, the
                  \* number of error events
    hist,         \* history: messages taken, classifier calls, evictions,
                  \* failed classifier calls, tone updates received
    history,      \* StabilityFilter._history: the last window_size entries
    current_sign, \* StabilityFilter._current_sign
    updates       \* every update of the filter and what it returned
                  \* (history)

aggVars == <<samples, lastOp, aggResult>>
bufVars == <<running, buffer, timing, last_tone, tasks, analysis_task,
             monitor>>
sessVars == <<now, rx, session, udict, pending_utterances, sent, hist>>
signVars == <<history, current_sign, updates>>
vars == <<aggVars, bufVars, sessVars, signVars>>

----------------------------------------------------------------------------
(* Program constants, in the units above. *)

TICKS_PER_SECOND == 10
TONE_SAMPLE_RETENTION == 100
DEFAULT_MIN_OVERLAP_RATIO == 30
DEFAULT_MIN_CONFIDENCE == 300

Max(a, b) == IF a >= b THEN a ELSE b
Min(a, b) == IF a <= b THEN a ELSE b

----------------------------------------------------------------------------
(* ToneSample and ToneAggregator. *)

ToneSample(start, end, emotion, confidence) ==
    [start_time |-> start, end_time |-> end,
     emotion |-> emotion, confidence |-> confidence]

\* add_sample with the retention test written >= instead of > : a sample
\* exactly RETENTION older than the new one is kept.
add_sample_keeps_boundary(store, s) ==
    LET cutoff == s.end_time - TONE_SAMPLE_RETENTION
    IN  SelectSeq(Append(store, s), LAMBDA x : x.end_time >= cutoff)

add_sample(store, s) ==
    LET cutoff == s.end_time - TONE_SAMPLE_RETENTION
    IN  SelectSeq(Append(store, s), LAMBDA x : x.end_time > cutoff)

NeutralResult == [isNone |-> FALSE, label |-> "neutral", confidence |-> 0]
NoneResult == [isNone |-> TRUE, label |-> "None", confidence |-> 0]

\* overlap_end - overlap_start of one sample with the window [a, b]
OverlapDuration(s, a, b) == Min(s.end_time, b) - Max(s.start_time, a)

\* the list `overlapping`: the samples with overlap_end > overlap_start
Overlapping(store, a, b) ==
    SelectSeq(store, LAMBDA s : Min(s.end_time, b) > Max(s.start_time, a))

RECURSIVE SumOverlap(_, _, _)
SumOverlap(seq, a, b) ==
    IF seq = <<>> THEN 0
    ELSE OverlapDuration(Head(seq), a, b) + SumOverlap(Tail(seq), a, b)

\* weighted[label]: sum of confidence * overlap duration over the samples
\* of that label
RECURSIVE Weighted(_, _, _, _)
Weighted(seq, label, a, b) ==
    IF seq = <<>> THEN 0
    ELSE (IF Head(seq).emotion = label
          THEN Head(seq).confidence * OverlapDuration(Head(seq), a, b)
          ELSE 0)
         + Weighted(Tail(seq), label, a, b)

\* keys of the dict `weighted` in insertion order
RECURSIVE LabelOrder(_, _)
LabelOrder(seq, seen) ==
    IF seq = <<>> THEN <<>>
    ELSE IF Head(seq).emotion \in seen
         THEN LabelOrder(Tail(seq), seen)
         ELSE <<Head(seq).emotion>>
              \o LabelOrder(Tail(seq), seen \cup {Head(seq).emotion})

\* max(weighted, key=weighted.get): the first key, in insertion order,
\* whose value is the largest
RECURSIVE FirstMax(_, _, _, _)
FirstMax(keys, ov, a, b) ==
    IF Len(keys) = 1 THEN keys[1]
    ELSE LET rest == FirstMax(Tail(keys), ov, a, b)
         IN  IF Weighted(ov, keys[1], a, b) >= Weighted(ov, rest, a, b)
             THEN keys[1] ELSE rest

\* the first key whose value is the smallest (min in place of max)
RECURSIVE FirstMin(_, _, _, _)
FirstMin(keys, ov, a, b) ==
    IF Len(keys) = 1 THEN keys[1]
    ELSE LET rest == FirstMin(Tail(keys), ov, a, b)
         IN  IF Weighted(ov, keys[1], a, b) <= Weighted(ov, rest, a, b)
             THEN keys[1] ELSE rest

RECURSIVE SumWeights(_, _, _, _)
SumWeights(keys, ov, a, b) ==
    IF keys = <<>> THEN 0
    ELSE Weighted(ov, Head(keys), a, b) + SumWeights(Tail(keys), ov, a, b)

\* round(n / d) to the nearest integer, ties to even (Python's round)
RoundDiv(n, d) ==
    LET q == n \div d
        r == n % d
    IN  IF 2 * r < d THEN q
        ELSE IF 2 * r > d THEN q + 1
        ELSE IF q % 2 = 0 THEN q ELSE q + 1

\* best_label of a variant that takes the label inserted first
BestLabelFirstKey(ov, a, b) == LabelOrder(ov, {})[1]

\* best_label of a variant that votes for the lightest label
BestLabelLightest(ov, a, b) == FirstMin(LabelOrder(ov, {}), ov, a, b)

BestLabel(ov, a, b) == FirstMax(LabelOrder(ov, {}), ov, a, b)

\* the coverage test with the comparison dropped: never "too little overlap"
InsufficientCoverageNever(total_overlap, duration, ratio) == FALSE

\* total_overlap < utterance_duration * min_overlap_ratio
InsufficientCoverage(total_overlap, duration, ratio) ==
    total_overlap * 100 < duration * ratio

\* the no-overlap branch returning None, as the docstring words it
NoOverlapResultNone == NoneResult

\* the result of the `if not overlapping` branch
NoOverlapResult == NeutralResult

aggregate_for_utterance(store, a, b, ratio, min_confidence) ==
    LET duration == b - a
        ov == Overlapping(store, a, b)
        total_overlap == SumOverlap(ov, a, b)
        keys == LabelOrder(ov, {})
        total_weight == SumWeights(keys, ov, a, b)
    IN  IF duration <= 0 THEN NoneResult
        ELSE IF ov = <<>> THEN NoOverlapResult
        ELSE IF InsufficientCoverage(total_overlap, duration, ratio)
             THEN NeutralResult
        \* avg_confidence = total_weight / total_overlap < min_confidence
        ELSE IF total_weight < min_confidence * total_overlap
             THEN NeutralResult
        ELSE [isNone |-> FALSE,
              label |-> BestLabel(ov, a, b),
              confidence |-> RoundDiv(Min(total_weight, 1000 * total_overlap),
                                      total_overlap)]

----------------------------------------------------------------------------
(* The aggregator alone: samples drawn from a bounded set are added, and   *)
(* a window drawn from a bounded set is aggregated.  Aggregation leaves    *)
(* the store as it is, so a run is followed up to its first query: what    *)
(* can happen after the query is what can happen from the same store.      *)

AggMaxSampleSeconds == 3
AggMaxWindowSeconds == 4
AggMaxStore == 2

AggLabels == {"calm", "concern"}
AggConfidences == {200, 900}
\* (min_overlap_ratio, min_confidence) as the three call sites pass them
AggParams == {<<30, 300>>, <<5, 100>>, <<10, 100>>}

AggSamples ==
    { ToneSample((e - d) * TICKS_PER_SECOND, e * TICKS_PER_SECOND, l, c) :
        <<e, d, l, c>> \in { q \in (1..AggMaxSampleSeconds) \X (1..2)
                                   \X AggLabels \X AggConfidences :
                             q[1] - q[2] >= 0 } }

AggWindowTimes == { t * TICKS_PER_SECOND : t \in 0..AggMaxWindowSeconds }

NoOp == [op |-> "none"]

\* None where a sign is expected
NoSign == "None"

\* StabilityFilter.__init__
FilterInit ==
    /\ history = <<>>
    /\ current_sign = NoSign
    /\ updates = <<>>

\* the variables of the session, unused by the aggregator taken alone
Idle ==
    /\ FilterInit
    /\ now = 0 /\ running = FALSE /\ buffer = <<>>
    /\ timing = [last_analysis_time |-> 0, last_analyzed_buffer_end |-> 0,
                 last_append_time |-> 0]
    /\ last_tone = [success |-> FALSE, primary_tone |-> "", confidence |-> 0]
    /\ tasks = <<>> /\ analysis_task = 0
    /\ monitor = [st |-> "none", slept |-> FALSE, cancel |-> FALSE]
    /\ rx = [pc |-> "none"]
    /\ session = [is_listening |-> FALSE]
    /\ udict = <<>> /\ pending_utterances = <<>> /\ sent = <<>>
    /\ hist = [messages |-> 0]

AggInit ==
    /\ samples = <<>>
    /\ lastOp = NoOp
    /\ aggResult = NoneResult
    /\ Idle

AggAddSample(s) ==
    /\ lastOp.op # "aggregate"
    /\ Len(samples) < AggMaxStore
    /\ samples' = add_sample(samples, s)
    /\ lastOp' = [op |-> "add_sample", sample |-> s, before |-> samples]
    /\ UNCHANGED <<aggResult, bufVars, sessVars, signVars>>

AggAggregate(a, b, p) ==
    /\ lastOp.op # "aggregate"
    /\ aggResult' = aggregate_for_utterance(samples, a, b, p[1], p[2])
    /\ lastOp' = [op |-> "aggregate", a |-> a, b |-> b,
                  ratio |-> p[1], min_confidence |-> p[2]]
    /\ UNCHANGED <<samples, bufVars, sessVars, signVars>>

AggNext ==
    \/ \E s \in AggSamples : AggAddSample(s)
    \/ \E a \in AggWindowTimes, b \in AggWindowTimes, p \in AggParams :
         AggAggregate(a, b, p)

SpecAgg == AggInit /\ [][AggNext]_vars

----------------------------------------------------------------------------
(* What the claims about aggregation speak of, written from their own      *)
(* words: the positive overlap of one sample with a window, the summed     *)
(* overlap, and the weight confidence x overlap that a label collects.     *)

PositiveOverlap(x, a, b) ==
    LET lo == IF x.start_time > a THEN x.start_time ELSE a
        hi == IF x.end_time < b THEN x.end_time ELSE b
    IN  IF hi > lo THEN hi - lo ELSE 0

RECURSIVE SummedOverlap(_, _, _)
SummedOverlap(store, a, b) ==
    IF store = <<>> THEN 0
    ELSE PositiveOverlap(Head(store), a, b) + SummedOverlap(Tail(store), a, b)

RECURSIVE LabelWeight(_, _, _, _)
LabelWeight(store, l, a, b) ==
    IF store = <<>> THEN 0
    ELSE (IF Head(store).emotion = l
          THEN Head(store).confidence * PositiveOverlap(Head(store), a, b)
          ELSE 0) + LabelWeight(Tail(store), l, a, b)

RECURSIVE TotalWeight(_, _, _)
TotalWeight(store, a, b) ==
    IF store = <<>> THEN 0
    ELSE Head(store).confidence * PositiveOverlap(Head(store), a, b)
         + TotalWeight(Tail(store), a, b)

StoreLabels(store) == { store[i].emotion : i \in 1..Len(store) }

Aggregated == lastOp.op = "aggregate"

ThresholdsMet ==
    LET a == lastOp.a
        b == lastOp.b
        o == SummedOverlap(samples, a, b)
    IN  /\ b > a /\ o > 0
        /\ o * 100 >= (b - a) * lastOp.ratio
        /\ TotalWeight(samples, a, b) >= lastOp.min_confidence * o

\* C8: when the coverage and confidence thresholds are met, the returned
\* label is one that maximizes the sum over the overlapping samples of
\* confidence x overlap duration.
C8_WeightedVote ==
    (Aggregated /\ ThresholdsMet)
        => /\ ~aggResult.isNone
           /\ aggResult.label \in StoreLabels(samples)
           /\ \A l \in StoreLabels(samples) :
                LabelWeight(samples, aggResult.label, lastOp.a, lastOp.b)
                    >= LabelWeight(samples, l, lastOp.a, lastOp.b)

\* two samples of distinct labels and different weights, both overlapping
\* the window: the heavier one wins
C8_Witness ==
    /\ Aggregated /\ ThresholdsMet
    /\ Len(samples) = 2
    /\ samples[1].emotion # samples[2].emotion
    /\ PositiveOverlap(samples[1], lastOp.a, lastOp.b) > 0
    /\ PositiveOverlap(samples[2], lastOp.a, lastOp.b) > 0
    /\ samples[2].confidence * PositiveOverlap(samples[2], lastOp.a, lastOp.b)
         > samples[1].confidence
             * PositiveOverlap(samples[1], lastOp.a, lastOp.b)
    /\ aggResult.label = samples[2].emotion

\* C9: aggregate returns neutral with confidence 0 whenever the summed
\* overlap of the retained samples with the window is less than
\* min_overlap_ratio x the window's duration, however confident a sample is.
C9_LowCoverageNeutral ==
    (Aggregated
       /\ SummedOverlap(samples, lastOp.a, lastOp.b) * 100
            < (lastOp.b - lastOp.a) * lastOp.ratio)
        => (aggResult = [isNone |-> FALSE, label |-> "neutral",
                         confidence |-> 0])

\* one confident sample covering a quarter of the window, ratio 0.3
C9_Witness ==
    /\ Aggregated /\ lastOp.ratio = 30
    /\ Len(samples) = 1 /\ samples[1].confidence = 900
    /\ SummedOverlap(samples, lastOp.a, lastOp.b) > 0
    /\ SummedOverlap(samples, lastOp.a, lastOp.b) * 100
         < (lastOp.b - lastOp.a) * lastOp.ratio
    /\ aggResult.label = "neutral" /\ aggResult.confidence = 0

----------------------------------------------------------------------------
(* The store alone, over more than the retention span: samples whose       *)
(* end_time is a whole second up to StoreMaxSeconds are added in any order.*)

StoreMaxSeconds == 12
StoreMaxLen == 3

StoreSamples ==
    { ToneSample((e - 1) * TICKS_PER_SECOND, e * TICKS_PER_SECOND, "calm", 900) :
        e \in 1..StoreMaxSeconds }

StoreInit ==
    /\ samples = <<>>
    /\ lastOp = NoOp
    /\ aggResult = NoneResult
    /\ Idle

StoreAddSample(s) ==
    /\ Len(samples) < StoreMaxLen
    /\ samples' = add_sample(samples, s)
    /\ lastOp' = [op |-> "add_sample", sample |-> s, before |-> samples]
    /\ UNCHANGED <<aggResult, bufVars, sessVars, signVars>>

StoreNext == \E s \in StoreSamples : StoreAddSample(s)

SpecStore == StoreInit /\ [][StoreNext]_vars

\* C10: adding a sample with end_time = T removes exactly the stored samples
\* with end_time <= T - 10.0 s and keeps every other sample, the new one
\* included, in insertion order.
C10_EvictionExact ==
    lastOp.op = "add_sample"
        => LET T == lastOp.sample.end_time
           IN  samples = SelectSeq(Append(lastOp.before, lastOp.sample),
                                   LAMBDA x : ~(x.end_time <= T - 100))

\* an add that evicted a sample exactly 10 s older and kept a younger one
C10_Witness ==
    /\ lastOp.op = "add_sample"
    /\ Len(lastOp.before) = 2
    /\ lastOp.before[1].end_time = lastOp.sample.end_time - 100
    /\ lastOp.before[2].end_time > lastOp.sample.end_time - 100
    /\ samples = <<lastOp.before[2], lastOp.sample>>

----------------------------------------------------------------------------
(* ProsodyBuffer: the sliding audio window and the analysis scheduler.     *)
(* An audio chunk is modelled by its length in bytes.                      *)

WINDOW_SIZE == 25
ANALYSIS_INTERVAL == 8
BUFFER_MAXLEN == 100
HUME_MAX_BYTES == 81000
MIN_ANALYSIS_BYTES == 8000
BYTES_PER_TICK == 1600
MIN_EMIT_CONFIDENCE == 50

\* time.time() is far from 0.0, the initial value of the three time stamps
START_TIME == 10 * TONE_SAMPLE_RETENTION

NoTone == [success |-> FALSE, primary_tone |-> "", confidence |-> 0]
IsNoTone(t) == t.primary_tone = ""

\* an eviction loop that also drops the chunk stamped exactly cutoff
RECURSIVE EvictOldInclusive(_, _)
EvictOldInclusive(buf, cutoff) ==
    IF buf # <<>> /\ Head(buf).ts <= cutoff
    THEN EvictOldInclusive(Tail(buf), cutoff) ELSE buf

RECURSIVE EvictOld(_, _)
EvictOld(buf, cutoff) ==
    IF buf # <<>> /\ Head(buf).ts < cutoff
    THEN EvictOld(Tail(buf), cutoff) ELSE buf

\* the body of append_chunk on the deque (maxlen drops the oldest chunk)
append_chunk(buf, len, t) ==
    LET a == Append(buf, [len |-> len, ts |-> t])
        b == IF Len(a) > BUFFER_MAXLEN THEN Tail(a) ELSE a
    IN  EvictOld(b, t - WINDOW_SIZE)

RECURSIVE TotalBytes(_)
TotalBytes(buf) ==
    IF buf = <<>> THEN 0 ELSE Head(buf).len + TotalBytes(Tail(buf))

\* len(get_buffer_audio())
get_buffer_audio_len(buf) == Min(TotalBytes(buf), HUME_MAX_BYTES)

\* a cap that keeps the first bytes: raw[:HUME_MAX_BYTES]
get_buffer_audio_head(buf) == 0

\* where get_buffer_audio() starts in the concatenation of the chunks,
\* whose bytes are numbered from 0 in arrival order: raw[-HUME_MAX_BYTES:]
get_buffer_audio_from(buf) ==
    IF TotalBytes(buf) > HUME_MAX_BYTES
    THEN TotalBytes(buf) - HUME_MAX_BYTES ELSE 0

should_analyze_now == (now - timing.last_analysis_time) >= ANALYSIS_INTERVAL

\* has_new_audio without the marker: any buffered audio counts as new
has_buffered_audio == buffer # <<>>

has_new_audio ==
    /\ buffer # <<>>
    /\ buffer[Len(buffer)].ts > timing.last_analyzed_buffer_end

\* has_recent_audio without its idle limit: some chunk was appended once
has_audio_at_all == timing.last_append_time > 0

has_recent_audio ==
    /\ timing.last_append_time > 0
    /\ now - timing.last_append_time
         <= Max(TICKS_PER_SECOND, ANALYSIS_INTERVAL * 2)

\* self._lock held by an analysis for as long as its classifier call
\* lasts, as a variant of _run_analysis that takes the lock would hold it
LockHeldDuringCall == \E i \in DOMAIN tasks : tasks[i].st = "classifier"

\* self._lock.locked() when append_chunk reaches `async with self._lock`:
\* append_chunk alone takes the lock and does not suspend inside it
LockHeld == FALSE

\* a done() that stays false for a task ended by an exception
TaskDoneUnlessRaised(i) ==
    /\ tasks[i].st \in {"done", "cancelled"}
    /\ tasks[i].how # "raised"

\* task.done(): finished or cancelled
TaskDone(i) == tasks[i].st \in {"done", "cancelled"}

\* the guard of trigger_analysis_if_ready without its test of the task
\* still running
PreviousAnalysisRunningIgnored == FALSE

\* self.analysis_task and not self.analysis_task.done()
PreviousAnalysisRunning == analysis_task # 0 /\ ~TaskDone(analysis_task)

\* `if not self.tone_analyzer` with the test dropped
tone_analyzer_ignored == TRUE

\* self.tone_analyzer is set: conversation_ws always passes one, and timing
\* says so where a specification constructs the buffer with or without
tone_analyzer ==
    IF "tone_analyzer" \in DOMAIN timing THEN timing.tone_analyzer ELSE TRUE

\* the tests of trigger_analysis_if_ready before that of the running task
LaunchDue ==
    /\ running
    /\ should_analyze_now
    /\ tone_analyzer
    /\ has_new_audio
    /\ has_recent_audio

\* trigger_analysis_if_ready reaches create_task
ShouldLaunch == LaunchDue /\ ~PreviousAnalysisRunning

NewTask ==
    [st |-> "created", cancel |-> FALSE,
     window_from |-> 0, window_len |-> 0,
     buffer_start |-> 0, buffer_end |-> 0,
     tone |-> NoTone, start_time |-> 0, end_time |-> 0,
     copy |-> <<>>, todo |-> <<>>, cur |-> 0, agg |-> NeutralResult,
     how |-> ""]

\* a task that has returned: its locals are gone; how it ended is history
Finished(how) == [NewTask EXCEPT !.st = "done", !.how = how]

\* asyncio.sleep(0.1) of the monitor loop and of time itself
Tick(maxTime) ==
    /\ now < START_TIME + maxTime
    /\ now' = now + 1
    /\ monitor' = IF monitor.st = "sleep"
                  THEN [monitor EXCEPT !.slept = TRUE] ELSE monitor
    /\ UNCHANGED <<aggVars, signVars, running, buffer, timing, last_tone, tasks,
                   analysis_task, rx, session, udict, pending_utterances,
                   sent, hist>>

\* one turn of _monitor_loop after its sleep: trigger_analysis_if_ready,
\* then the loop test.  hist.held_back collects the positions an unfinished
\* task was at when a due launch was held back because of it.
MonitorTick(maxLaunches) ==
    /\ monitor.st = "sleep" /\ monitor.slept /\ ~monitor.cancel
    /\ IF ShouldLaunch
       THEN /\ Len(tasks) < maxLaunches
            /\ tasks' = Append(tasks, NewTask)
            /\ analysis_task' = Len(tasks) + 1
       ELSE UNCHANGED <<tasks, analysis_task>>
    /\ monitor' = IF running THEN [monitor EXCEPT !.slept = FALSE]
                  ELSE [monitor EXCEPT !.st = "done"]
    /\ hist' = IF LaunchDue /\ PreviousAnalysisRunning
               THEN [hist EXCEPT !.held_back =
                                    @ \cup {tasks[analysis_task].st}]
               ELSE hist
    /\ UNCHANGED <<aggVars, signVars, now, running, buffer, timing, last_tone,
                   rx, session, udict, pending_utterances, sent>>

\* the monitor task takes the CancelledError thrown into its sleep
MonitorCancelled ==
    /\ monitor.st = "sleep" /\ monitor.cancel
    /\ monitor' = [monitor EXCEPT !.st = "cancelled"]
    /\ UNCHANGED <<aggVars, signVars, now, running, buffer, timing, last_tone, tasks,
                   analysis_task, rx, session, udict, pending_utterances,
                   sent, hist>>

\* _run_analysis from its start to the call of the classifier
AnalysisStart(i) ==
    /\ i \in DOMAIN tasks
    /\ tasks[i].st = "created" /\ ~tasks[i].cancel
    /\ IF ~running
       THEN /\ tasks' = [tasks EXCEPT ![i] = Finished("not_running")]
            /\ UNCHANGED <<timing, hist>>
       ELSE LET window_len == get_buffer_audio_len(buffer)
                window_from == get_buffer_audio_from(buffer)
                buffer_start == IF buffer # <<>> THEN buffer[1].ts ELSE now
                buffer_end == IF buffer # <<>> THEN buffer[Len(buffer)].ts
                              ELSE now
            IN  /\ timing' = [timing EXCEPT
                                !.last_analysis_time = now,
                                !.last_analyzed_buffer_end = buffer_end]
                /\ IF window_len < MIN_ANALYSIS_BYTES
                   THEN /\ tasks' = [tasks EXCEPT ![i] = Finished("too_short")]
                        /\ UNCHANGED hist
                   ELSE /\ tasks' = [tasks EXCEPT ![i] =
                              [@ EXCEPT !.st = "classifier",
                                        !.window_from = window_from,
                                        !.window_len = window_len,
                                        !.buffer_start = buffer_start,
                                        !.buffer_end = buffer_end]]
                        /\ hist' = [hist EXCEPT !.calls = @ + 1]
    /\ UNCHANGED <<aggVars, signVars, now, running, buffer, last_tone, analysis_task,
                   monitor, rx, session, udict, pending_utterances, sent>>

----------------------------------------------------------------------------
(* conversation_ws: the pending list and on_tone_sample.                   *)
(* A pending entry is a dict shared by the list and by the copy that       *)
(* on_tone_sample iterates: udict holds the dicts by utterance id, the     *)
(* list and the copy hold ids.                                             *)

PENDING_UTTERANCE_LIMIT == 10
MIN_CHUNK_BYTES == 1000
TEXT_WINDOW == 50
LATE_MIN_CONFIDENCE == 100
CONFIDENT_ENOUGH == 300
FALLBACK_BELOW == 200
LATE_MIN_OVERLAP_RATIO == 5
TEXT_MIN_OVERLAP_RATIO == 10

\* An outbound event.  origin tells the three senders of tone_update
\* apart; listed and task are history: whether the utterance was in the
\* pending list when send_json was called, and the analysis task that sent.
Ev(type, uid, tone, conf, origin) ==
    [type |-> type, uid |-> uid, tone |-> tone, conf |-> conf,
     origin |-> origin, listed |-> TRUE, task |-> 0]

InList(list, uid) == \E k \in 1..Len(list) : list[k] = uid

\* a tone_update of on_tone_sample, sent by analysis task i
Correction(uid, tone, conf, origin, i) ==
    [Ev("tone_update", uid, tone, conf, origin) EXCEPT
        !.listed = InList(pending_utterances, uid), !.task = i]

NothingSent == [by_uid |-> <<>>, status |-> "", errors |-> 0]

\* a connection that delivers the newest event of an utterance ahead of
\* the earlier ones
EmitNewestFirst(s, ev) ==
    IF ev.type = "status" THEN [s EXCEPT !.status = ev.tone]
    ELSE IF ev.type = "error" THEN [s EXCEPT !.errors = @ + 1]
    ELSE IF ev.uid = 0 THEN s
    ELSE IF ev.uid > Len(s.by_uid)
         THEN [s EXCEPT !.by_uid = Append(@, <<ev>>)]
         ELSE [s EXCEPT !.by_uid[ev.uid] = <<ev>> \o @]

\* the client's view after send_json(ev) has succeeded
Emit(s, ev) ==
    IF ev.type = "status" THEN [s EXCEPT !.status = ev.tone]
    ELSE IF ev.type = "error" THEN [s EXCEPT !.errors = @ + 1]
    ELSE IF ev.uid = 0 THEN s
    ELSE IF ev.uid > Len(s.by_uid)
         THEN [s EXCEPT !.by_uid = Append(@, <<ev>>)]
         ELSE [s EXCEPT !.by_uid[ev.uid] = Append(@, ev)]

Reverse(seq) == [i \in 1..Len(seq) |-> seq[Len(seq) + 1 - i]]

\* the re-aggregation of on_tone_sample for one pending entry
LateAggregate(u, store) ==
    aggregate_for_utterance(store, u.start, u.end,
                            LATE_MIN_OVERLAP_RATIO, LATE_MIN_CONFIDENCE)

\* a test that lets every stored sample through to the overlap loop
too_weak_never(tone_conf) == FALSE

\* `if tone_conf < 0.1: return`: the sample is stored, no entry is looked at
too_weak(tone_conf) == tone_conf < LATE_MIN_CONFIDENCE

\* an overlap loop that passes every entry by
OverlapHitNever(u, store, start_time, end_time) == FALSE

\* the entry passes the three `continue` tests of the overlap loop
OverlapHit(u, store, start_time, end_time) ==
    /\ ~(u.tone_confidence >= CONFIDENT_ENOUGH)
    /\ ~(Min(u.end, end_time) - Max(u.start, start_time) <= 0)
    /\ LET aggregated == LateAggregate(u, store)
       IN  ~(aggregated.isNone \/ aggregated.confidence < LATE_MIN_CONFIDENCE)

\* the rest of the copy from the first entry the overlap loop sends for
RECURSIVE SkipToHit(_, _, _, _, _)
SkipToHit(todo, ud, store, start_time, end_time) ==
    IF todo = <<>> THEN <<>>
    ELSE IF OverlapHit(ud[Head(todo)], store, start_time, end_time)
         THEN todo
         ELSE SkipToHit(Tail(todo), ud, store, start_time, end_time)

\* a fallback loop that scans the pending list oldest first
FallbackEntryOldest(rev, ud) ==
    LET below == { k \in DOMAIN rev :
                     ud[rev[k]].tone_confidence < FALLBACK_BELOW }
    IN  IF below = {} THEN 0
        ELSE rev[CHOOSE k \in below : \A j \in below : j <= k]

\* the entry the fallback loop sends for: the first of reversed(pending)
\* with tone_confidence < 0.2, 0 when there is none
RECURSIVE FallbackEntry(_, _)
FallbackEntry(rev, ud) ==
    IF rev = <<>> THEN 0
    ELSE IF ud[Head(rev)].tone_confidence < FALLBACK_BELOW THEN Head(rev)
         ELSE FallbackEntry(Tail(rev), ud)

\* a send that raises and leaves the task suspended for good
SendFailedBlocks == [Finished("send_failed") EXCEPT !.st = "blocked"]

\* `except Exception: return` around send_json: on_tone_sample returns and
\* _run_analysis runs to its end
SendFailed == Finished("send_failed")

\* on_tone_sample from the top of the overlap loop (entries todo left in
\* the copy) to its next send_json or to its return; ok is whether that
\* send succeeds.  The event is handed over when send_json is called; the
\* task is then suspended until the send returns.
OtsLoop(i, tk, todo, updated_any, ud, store, ok) ==
    LET rest == SkipToHit(todo, ud, store, tk.start_time, tk.end_time)
        fb == FallbackEntry(Reverse(pending_utterances), ud)
    IN  IF rest # <<>>
        THEN LET agg == LateAggregate(ud[Head(rest)], store)
             IN  IF ok
                 THEN /\ sent' = Emit(sent,
                            Correction(Head(rest), agg.label,
                                       agg.confidence, "correction", i))
                      /\ tasks' = [tasks EXCEPT ![i] =
                            [tk EXCEPT !.st = "ots_send",
                                       !.cur = Head(rest),
                                       !.agg = agg,
                                       !.todo = Tail(rest)]]
                 ELSE /\ tasks' = [tasks EXCEPT ![i] = SendFailed]
                      /\ UNCHANGED sent
        ELSE IF ~updated_any /\ pending_utterances # <<>> /\ fb # 0
        THEN IF ok
             THEN /\ sent' = Emit(sent,
                        Correction(fb, tk.tone.primary_tone,
                                   tk.tone.confidence, "fallback", i))
                  /\ tasks' = [tasks EXCEPT ![i] =
                        [tk EXCEPT !.st = "fb_send", !.cur = fb,
                                   !.todo = <<>>]]
             ELSE /\ tasks' = [tasks EXCEPT ![i] = SendFailed]
                  /\ UNCHANGED sent
        ELSE /\ tasks' = [tasks EXCEPT ![i] = Finished("returned")]
             /\ UNCHANGED sent

\* what the classifier may answer: a result dict, or an exception
SuccessTone(label, conf) ==
    [success |-> TRUE, primary_tone |-> label, confidence |-> conf]
FailedResult == [success |-> FALSE, primary_tone |-> "neutral", confidence |-> 0]
ClassifierResults ==
    {SuccessTone("calm", 500), SuccessTone("concern", 200),
     SuccessTone("calm", 40), FailedResult}

\* history: the classifier call of task i failed, by raising or by an
\* error result, when the receive loop had taken h.messages messages
ClassifierFailed(h, i, raised) ==
    [h EXCEPT !.failed =
        @ \cup {[task |-> i, raised |-> raised, messages |-> h.messages]}]

\* an except clause that reports the exception to the client
AnalysisErrorReported(s) == Emit(s, Ev("error", 0, "analysis", 0, ""))

\* except Exception in _run_analysis: a print, nothing is sent
AnalysisError(s) == s

\* `if self.on_tone_update: await self.on_tone_update(tone_result)`, run
\* by task i once on_tone_sample has returned.  conversation_ws installs
\* no such callback; on_update of test_timing appends the time to
\* updates_received, kept in h where that callback is installed.
on_tone_update(h, tk, t) ==
    IF tk.st = "done" /\ tk.how \in {"returned", "send_failed"}
       /\ "updates_received" \in DOMAIN h
    THEN [h EXCEPT !.updates_received = Append(@, t)]
    ELSE h

\* end_time of a variant that reads the buffer when the classifier has
\* returned
end_time_at_return(tk) ==
    IF buffer # <<>> THEN buffer[Len(buffer)].ts ELSE now

\* end_time = buffer_end, the local captured before the classifier call
end_time_of(tk) == tk.buffer_end

\* _should_emit_tone without its test of the confidence
should_emit_labelled(new_tone, new_confidence) == ~(new_tone = "")

\* _should_emit_tone
should_emit_tone(new_tone, new_confidence) ==
    ~(new_tone = "") /\ ~(new_confidence < MIN_EMIT_CONFIDENCE)

\* _run_analysis from the return of the classifier to the first send of
\* on_tone_sample, or to its end
AnalysisReturn(i, raised, result, ok) ==
    /\ i \in DOMAIN tasks
    /\ tasks[i].st = "classifier" /\ ~tasks[i].cancel
    /\ IF raised \/ ~running
       THEN /\ tasks' = [tasks EXCEPT ![i] =
                  Finished(IF raised THEN "raised" ELSE "not_running")]
            /\ sent' = IF raised THEN AnalysisError(sent) ELSE sent
            /\ UNCHANGED <<samples, last_tone>>
       ELSE LET tone_result ==
                    IF result.success THEN result
                    ELSE IF ~IsNoTone(last_tone) THEN last_tone
                    ELSE FailedResult
                analysis_duration == tasks[i].window_len \div BYTES_PER_TICK
                end_time == end_time_of(tasks[i])
                start_time == Max(tasks[i].buffer_start,
                                  end_time - analysis_duration)
                store == add_sample(samples,
                            ToneSample(start_time, end_time,
                                       tone_result.primary_tone,
                                       tone_result.confidence))
                tk == [tasks[i] EXCEPT !.tone = tone_result,
                                       !.start_time = start_time,
                                       !.end_time = end_time,
                                       !.copy = pending_utterances]
            IN  IF ~should_emit_tone(tone_result.primary_tone,
                                     tone_result.confidence)
                THEN /\ tasks' = [tasks EXCEPT ![i] = Finished("not_emitted")]
                     /\ UNCHANGED <<samples, last_tone, sent>>
                ELSE /\ last_tone' = tone_result
                     /\ samples' = store
                     /\ IF too_weak(tone_result.confidence)
                        THEN /\ tasks' = [tasks EXCEPT ![i] =
                                             Finished("returned")]
                             /\ UNCHANGED sent
                        ELSE OtsLoop(i, tk, pending_utterances, FALSE,
                                     udict, store, ok)
    /\ hist' = on_tone_update(
                   IF raised \/ ~result.success
                   THEN ClassifierFailed(hist, i, raised) ELSE hist,
                   tasks'[i], now)
    /\ UNCHANGED <<lastOp, aggResult, signVars, now, running, buffer,
                   timing, analysis_task, monitor, rx, session, udict,
                   pending_utterances>>

\* on_tone_sample after a correction was sent: record the confidence and
\* go on with the copy
AnalysisAfterSend(i, ok) ==
    /\ i \in DOMAIN tasks
    /\ tasks[i].st = "ots_send" /\ ~tasks[i].cancel
    /\ udict' = [udict EXCEPT ![tasks[i].cur].tone_confidence =
                                  tasks[i].agg.confidence]
    /\ OtsLoop(i, tasks[i], tasks[i].todo, TRUE, udict', samples, ok)
    /\ hist' = on_tone_update(hist, tasks'[i], now)
    /\ UNCHANGED <<aggVars, signVars, now, running, buffer, timing,
                   last_tone, analysis_task, monitor, rx, session,
                   pending_utterances>>

\* on_tone_sample after the fallback was sent: record and return
AnalysisAfterFallback(i) ==
    /\ i \in DOMAIN tasks
    /\ tasks[i].st = "fb_send" /\ ~tasks[i].cancel
    /\ udict' = [udict EXCEPT ![tasks[i].cur].tone_confidence =
                                  tasks[i].tone.confidence]
    /\ tasks' = [tasks EXCEPT ![i] = Finished("returned")]
    /\ hist' = on_tone_update(hist, tasks'[i], now)
    /\ UNCHANGED <<aggVars, signVars, now, running, buffer, timing,
                   last_tone, analysis_task, monitor, rx, session,
                   pending_utterances, sent>>

\* a suspended analysis task takes the CancelledError thrown into it;
\* how keeps the await it was suspended at
AnalysisCancelled(i) ==
    /\ i \in DOMAIN tasks
    /\ ~TaskDone(i) /\ tasks[i].cancel
    /\ tasks' = [tasks EXCEPT ![i] =
                    [Finished(tasks[i].st) EXCEPT !.st = "cancelled"]]
    /\ UNCHANGED <<aggVars, signVars, now, running, buffer, timing, last_tone,
                   analysis_task, monitor, rx, session, udict,
                   pending_utterances, sent, hist>>

----------------------------------------------------------------------------
(* conversation_ws: the receive loop.  rx.pc is the await the loop is      *)
(* suspended at; each action runs the code from one await to the next.     *)
(* A send_json hands its event over when it is called (when it succeeds),  *)
(* and raises when it fails.                                               *)

RxIdle == [pc |-> "recv", uid |-> 0, final |-> FALSE, tone |-> "",
           conf |-> 0, decodable |-> FALSE, len |-> 0, t0 |-> 0]

\* the except clause entered from anywhere in the loop body
RxRaise == [RxIdle EXCEPT !.pc = "except"]

\* await websocket.send_json(ev) in the receive loop, suspended at pc next
RxSend(ev, ok, next) ==
    IF ok THEN /\ sent' = Emit(sent, ev)
               /\ rx' = next
          ELSE /\ UNCHANGED sent
               /\ rx' = RxRaise

\* the list after append() and the pop of a variant that drops the newest
\* entry instead of the oldest
AfterAppendPopNewest(list, uid) ==
    LET appended == Append(list, uid)
    IN  IF Len(appended) > PENDING_UTTERANCE_LIMIT
        THEN SubSeq(appended, 1, Len(appended) - 1) ELSE appended

\* pending_utterances after append() and the pop(0) over the limit
AfterAppend(list, uid) ==
    LET appended == Append(list, uid)
    IN  IF Len(appended) > PENDING_UTTERANCE_LIMIT
        THEN Tail(appended) ELSE appended

\* pending_utterances.append({...}); if len > LIMIT: pop(0)
Register(uid, start, end, conf) ==
    /\ udict' = Append(udict, [start |-> start, end |-> end,
                               tone_confidence |-> conf])
    /\ pending_utterances' = AfterAppend(pending_utterances, uid)
    /\ hist' = [hist EXCEPT !.evicted =
                  IF Len(pending_utterances) + 1 > PENDING_UTTERANCE_LIMIT
                  THEN @ \cup {Head(Append(pending_utterances, uid))}
                  ELSE @]

\* the provisional tone of a final text transcript
TextTone(store, t) ==
    LET aggregated == aggregate_for_utterance(store, t - TEXT_WINDOW, t,
                          TEXT_MIN_OVERLAP_RATIO, LATE_MIN_CONFIDENCE)
    IN  IF ~aggregated.isNone /\ aggregated.confidence >= LATE_MIN_CONFIDENCE
        THEN aggregated ELSE NeutralResult

\* the provisional tone of an audio utterance
AudioTone(store, start, end) ==
    LET aggregated == aggregate_for_utterance(store, start, end,
                          DEFAULT_MIN_OVERLAP_RATIO, DEFAULT_MIN_CONFIDENCE)
    IN  IF ~aggregated.isNone THEN aggregated ELSE NeutralResult

\* receive_text raises WebSocketDisconnect
RxDisconnect ==
    /\ rx.pc = "recv"
    /\ rx' = [RxIdle EXCEPT !.pc = "finally"]
    /\ UNCHANGED <<aggVars, signVars, bufVars, now, session, udict,
                   pending_utterances, sent, hist>>

\* receive_text returns message m; the handler runs to its first await
RxRecv(m, ok, maxMessages) ==
    /\ rx.pc = "recv"
    /\ hist.messages < maxMessages
    /\ LET taken == [hist EXCEPT !.messages = @ + 1]
       IN
       CASE m.type = "start_listening" ->
              /\ session' = [session EXCEPT
                    !.is_listening = TRUE,
                    !.use_web_speech = @ \/ m.use_web_speech]
              /\ RxSend(Ev("status", 0, "listening", 0, ""), ok, RxIdle)
              /\ hist' = taken
              /\ UNCHANGED <<buffer, timing>>
         [] m.type = "stop_listening" ->
              /\ session' = [session EXCEPT !.is_listening = FALSE]
              /\ RxSend(Ev("status", 0, "idle", 0, ""), ok, RxIdle)
              /\ hist' = taken
              /\ UNCHANGED <<buffer, timing>>
         [] m.type = "text_transcript" ->
              /\ session' = [session EXCEPT !.use_web_speech = TRUE]
              /\ hist' = taken
              /\ UNCHANGED <<buffer, timing>>
              /\ IF ~session.is_listening \/ m.text = ""
                 THEN /\ rx' = RxIdle
                      /\ UNCHANGED sent
                 ELSE LET uid == IF m.is_final THEN Len(udict) + 1 ELSE 0
                      IN  RxSend(Ev("transcript", uid,
                                    IF m.is_final THEN "analyzing..."
                                    ELSE "interim", 0, ""),
                                 ok,
                                 [RxIdle EXCEPT !.pc = "t_transcript_sent",
                                                !.uid = uid,
                                                !.final = m.is_final])
         [] m.type = "audio_chunk" ->
              /\ hist' = taken
              /\ UNCHANGED session
              /\ IF ~session.is_listening
                 THEN /\ rx' = RxIdle
                      /\ UNCHANGED <<sent, buffer, timing>>
                 ELSE IF session.use_web_speech
                 THEN /\ rx' = RxIdle
                      /\ UNCHANGED sent
                      /\ IF m.decodable /\ m.len >= MIN_CHUNK_BYTES
                         THEN /\ ~LockHeld
                              /\ buffer' = append_chunk(buffer, m.len, now)
                              /\ timing' = [timing EXCEPT
                                               !.last_append_time = now]
                         ELSE UNCHANGED <<buffer, timing>>
                 ELSE /\ RxSend(Ev("status", 0, "processing", 0, ""), ok,
                                [RxIdle EXCEPT !.pc = "a_processing_sent",
                                               !.decodable = m.decodable,
                                               !.len = m.len])
                      /\ UNCHANGED <<buffer, timing>>
    /\ UNCHANGED <<aggVars, signVars, now, running, last_tone, tasks, analysis_task,
                   monitor, udict, pending_utterances>>

\* text_transcript after the transcript was sent: a final one is given its
\* provisional tone, registered and announced; an interim one is answered
\* with the status alone
RxTextFinalize(ok) ==
    /\ rx.pc = "t_transcript_sent"
    /\ IF rx.final
       THEN LET tone == TextTone(samples, now)
            IN  /\ Register(rx.uid, now - TEXT_WINDOW, now, tone.confidence)
                /\ RxSend(Ev("utterance_created", rx.uid, tone.label,
                             tone.confidence, ""),
                          ok,
                          [rx EXCEPT !.pc = "t_created_sent",
                                     !.tone = tone.label,
                                     !.conf = tone.confidence])
       ELSE /\ RxSend(Ev("status", 0, "listening", 0, ""), ok, RxIdle)
            /\ UNCHANGED <<udict, pending_utterances, hist>>
    /\ UNCHANGED <<aggVars, signVars, bufVars, now, session>>

\* the tone_update that follows utterance_created, then process_transcript
RxTextToneUpdate(ok) ==
    /\ rx.pc = "t_created_sent"
    /\ RxSend(Ev("tone_update", rx.uid, rx.tone, rx.conf, "provisional"),
              ok, [rx EXCEPT !.pc = "t_llm"])
    /\ UNCHANGED <<aggVars, signVars, bufVars, now, session, udict,
                   pending_utterances, hist>>

\* process_transcript has returned
RxTextSimplified(ok) ==
    /\ rx.pc = "t_llm"
    /\ RxSend(Ev("simplified", 0, "", 0, ""), ok,
              [rx EXCEPT !.pc = "t_simplified_sent"])
    /\ UNCHANGED <<aggVars, signVars, bufVars, now, session, udict,
                   pending_utterances, hist>>

RxTextListening(ok) ==
    /\ rx.pc = "t_simplified_sent"
    /\ RxSend(Ev("status", 0, "listening", 0, ""), ok, RxIdle)
    /\ UNCHANGED <<aggVars, signVars, bufVars, now, session, udict,
                   pending_utterances, hist>>

\* audio_chunk after status "processing" was sent: decode, length test,
\* append_chunk, call of transcribe_audio
RxAudioDecode(ok) ==
    /\ rx.pc = "a_processing_sent"
    /\ IF ~rx.decodable
       THEN /\ RxSend(Ev("error", 0, "Audio decode error", 0, ""), ok, RxIdle)
            /\ UNCHANGED <<buffer, timing>>
       ELSE IF rx.len < MIN_CHUNK_BYTES
       THEN /\ rx' = RxIdle
            /\ UNCHANGED <<sent, buffer, timing>>
       ELSE /\ ~LockHeld
            /\ buffer' = append_chunk(buffer, rx.len, now)
            /\ timing' = [timing EXCEPT !.last_append_time = now]
            /\ rx' = [rx EXCEPT !.pc = "a_stt", !.t0 = now]
            /\ UNCHANGED sent
    /\ UNCHANGED <<aggVars, signVars, now, running, last_tone, tasks, analysis_task,
                   monitor, session, udict, pending_utterances, hist>>

\* transcribe_audio has returned tr
RxAudioTranscribed(tr, ok) ==
    /\ rx.pc = "a_stt"
    /\ LET duration == IF tr.duration = -1 THEN rx.len \div BYTES_PER_TICK
                       ELSE tr.duration
           utterance_end == rx.t0
           utterance_start == rx.t0 - duration
           tone == AudioTone(samples, utterance_start, utterance_end)
           uid == Len(udict) + 1
       IN  IF tr.text = ""
           THEN /\ RxSend(Ev("status", 0, "listening", 0, ""), ok, RxIdle)
                /\ UNCHANGED <<udict, pending_utterances, hist>>
           ELSE /\ Register(uid, utterance_start, utterance_end,
                            tone.confidence)
                /\ RxSend(Ev("utterance_created", uid, tone.label,
                             tone.confidence, ""),
                          ok,
                          [rx EXCEPT !.pc = "a_created_sent", !.uid = uid,
                                     !.tone = tone.label,
                                     !.conf = tone.confidence])
    /\ UNCHANGED <<aggVars, signVars, bufVars, now, session>>

RxAudioTranscript(ok) ==
    /\ rx.pc = "a_created_sent"
    /\ RxSend(Ev("transcript", rx.uid, rx.tone, rx.conf, ""), ok,
              [rx EXCEPT !.pc = "a_transcript_sent"])
    /\ UNCHANGED <<aggVars, signVars, bufVars, now, session, udict,
                   pending_utterances, hist>>

RxAudioToneUpdate(ok) ==
    /\ rx.pc = "a_transcript_sent"
    /\ RxSend(Ev("tone_update", rx.uid, rx.tone, rx.conf, "provisional"),
              ok, [rx EXCEPT !.pc = "a_llm"])
    /\ UNCHANGED <<aggVars, signVars, bufVars, now, session, udict,
                   pending_utterances, hist>>

RxAudioSimplified(ok) ==
    /\ rx.pc = "a_llm"
    /\ RxSend(Ev("simplified", 0, "", 0, ""), ok,
              [rx EXCEPT !.pc = "a_simplified_sent"])
    /\ UNCHANGED <<aggVars, signVars, bufVars, now, session, udict,
                   pending_utterances, hist>>

RxAudioListening(ok) ==
    /\ rx.pc = "a_simplified_sent"
    /\ RxSend(Ev("status", 0, "listening", 0, ""), ok, RxIdle)
    /\ UNCHANGED <<aggVars, signVars, bufVars, now, session, udict,
                   pending_utterances, hist>>

\* except Exception: try to tell the client, then the finally clause
RxExcept(ok) ==
    /\ rx.pc = "except"
    /\ sent' = IF ok THEN Emit(sent, Ev("error", 0, "exception", 0, ""))
               ELSE sent
    /\ rx' = [RxIdle EXCEPT !.pc = "finally"]
    /\ UNCHANGED <<aggVars, signVars, bufVars, now, session, udict,
                   pending_utterances, hist>>

----------------------------------------------------------------------------
(* ProsodyBuffer.stop, awaited in the finally clause of conversation_ws.   *)

\* _running = False; monitor_task.cancel(); await monitor_task
StopBegin ==
    /\ rx.pc = "finally"
    /\ running' = FALSE
    /\ monitor' = IF monitor.st = "sleep"
                  THEN [monitor EXCEPT !.cancel = TRUE] ELSE monitor
    /\ rx' = [rx EXCEPT !.pc = "stop_await_monitor"]
    /\ UNCHANGED <<aggVars, signVars, now, buffer, timing, last_tone, tasks,
                   analysis_task, session, udict, pending_utterances,
                   sent, hist>>

\* analysis_task.cancel(): a request, unless the task is done already
CancelAnalysis(ts, i) ==
    IF i # 0 /\ ~(ts[i].st \in {"done", "cancelled"})
    THEN [ts EXCEPT ![i].cancel = TRUE] ELSE ts

\* stop() that does not await the analysis task
AnalysisAwaitedNot == TRUE

\* await self.analysis_task returns
AnalysisAwaited ==
    IF analysis_task = 0 THEN TRUE ELSE TaskDone(analysis_task)

\* the monitor task has ended: analysis_task.cancel(); await analysis_task
StopAfterMonitor ==
    /\ rx.pc = "stop_await_monitor"
    /\ monitor.st \in {"done", "cancelled"}
    /\ tasks' = CancelAnalysis(tasks, analysis_task)
    /\ rx' = [rx EXCEPT !.pc = "stop_await_analysis"]
    /\ UNCHANGED <<aggVars, signVars, now, running, buffer, timing, last_tone,
                   analysis_task, monitor, session, udict,
                   pending_utterances, sent, hist>>

\* the analysis task has ended: clear(); the handler returns
StopAfterAnalysis ==
    /\ rx.pc = "stop_await_analysis"
    /\ AnalysisAwaited
    /\ buffer' = <<>>
    /\ last_tone' = NoTone
    /\ timing' = [timing EXCEPT !.last_analysis_time = 0,
                                !.last_analyzed_buffer_end = 0]
    /\ rx' = [rx EXCEPT !.pc = "closed"]
    /\ UNCHANGED <<aggVars, signVars, now, running, tasks, analysis_task, monitor,
                   session, udict, pending_utterances, sent, hist>>

----------------------------------------------------------------------------
(* One connection: the receive loop, the monitor task and the analysis     *)
(* tasks, interleaved at their awaits.                                     *)

\* conversation_ws up to `await prosody_buffer.start()`
Init ==
    /\ samples = <<>> /\ lastOp = NoOp /\ aggResult = NoneResult
    /\ now = START_TIME
    /\ running = TRUE
    /\ buffer = <<>>
    /\ timing = [last_analysis_time |-> 0, last_analyzed_buffer_end |-> 0,
                 last_append_time |-> 0]
    /\ last_tone = NoTone
    /\ tasks = <<>> /\ analysis_task = 0
    /\ monitor = [st |-> "sleep", slept |-> FALSE, cancel |-> FALSE]
    /\ rx = RxIdle
    /\ session = [is_listening |-> FALSE, use_web_speech |-> FALSE]
    /\ udict = <<>> /\ pending_utterances = <<>>
    /\ sent = NothingSent
    /\ FilterInit
    /\ hist = [messages |-> 0, calls |-> 0, evicted |-> {},
               held_back |-> {}, failed |-> {}]

StartListening(b) == [type |-> "start_listening", use_web_speech |-> b]
AudioChunk == [type |-> "audio_chunk", decodable |-> TRUE, len |-> 16000]
FinalText == [type |-> "text_transcript", text |-> "hello", is_final |-> TRUE]
InterimText == [type |-> "text_transcript", text |-> "hello", is_final |-> FALSE]

\* transcribe_audio's result: a text, no duration (-1 is None)
Transcribed == [text |-> "hello", duration |-> -1]

----------------------------------------------------------------------------
(* The steps of the receive loop after a message was taken, and those of   *)
(* an analysis task, as the specifications below combine them.             *)

RxTextSteps(ok) ==
    \/ RxTextFinalize(ok)
    \/ RxTextToneUpdate(ok)
    \/ RxTextSimplified(ok)
    \/ RxTextListening(ok)

RxAudioSteps(tr, ok) ==
    \/ RxAudioDecode(ok)
    \/ RxAudioTranscribed(tr, ok)
    \/ RxAudioTranscript(ok)
    \/ RxAudioToneUpdate(ok)
    \/ RxAudioSimplified(ok)
    \/ RxAudioListening(ok)

\* the analysis tasks of a session whose sends succeed and whose
\* classifier answers one of results
AnalysisSteps(maxLaunches, results) ==
    \E i \in 1..maxLaunches :
        \/ AnalysisStart(i)
        \/ \E r \in results : AnalysisReturn(i, FALSE, r, TRUE)
        \/ AnalysisAfterSend(i, TRUE)
        \/ AnalysisAfterFallback(i)

----------------------------------------------------------------------------
(* Spec: audio chunks that are transcribed, final and interim captions;    *)
(* any send may fail, the connection may drop at any receive, the          *)
(* classifier answers anything or raises.                                  *)

MaxTime == 1
MaxMessages == 3
MaxLaunches == 1

Messages == {StartListening(FALSE), AudioChunk, FinalText}

RxStep ==
    \E ok \in BOOLEAN :
        \/ \E m \in Messages \cup {InterimText} :
              RxRecv(m, ok, MaxMessages)
        \/ RxTextSteps(ok)
        \/ RxAudioSteps(Transcribed, ok)
        \/ RxExcept(ok)

Teardown ==
    \/ RxDisconnect
    \/ StopBegin
    \/ StopAfterMonitor
    \/ StopAfterAnalysis

AnalysisStep ==
    \E i \in 1..MaxLaunches :
        \/ AnalysisStart(i)
        \/ \E raised \in BOOLEAN, r \in ClassifierResults, ok \in BOOLEAN :
             AnalysisReturn(i, raised, r, ok)
        \/ \E ok \in BOOLEAN : AnalysisAfterSend(i, ok)
        \/ AnalysisAfterFallback(i)
        \/ AnalysisCancelled(i)

Next ==
    \/ Tick(MaxTime)
    \/ MonitorTick(MaxLaunches)
    \/ MonitorCancelled
    \/ AnalysisStep
    \/ RxStep
    \/ Teardown

Spec == Init /\ [][Next]_vars

----------------------------------------------------------------------------
(* SpecSched: a client that streams audio next to browser captions (the    *)
(* chunks only feed the window), over many ticks; the classifier answers   *)
(* at any time or raises.                                                  *)

SchedMaxTime == 10
SchedMaxMessages == 3
SchedMaxLaunches == 2

SchedMessages == {StartListening(TRUE), AudioChunk}

SchedNext ==
    \/ Tick(SchedMaxTime)
    \/ MonitorTick(SchedMaxLaunches)
    \/ \E m \in SchedMessages : RxRecv(m, TRUE, SchedMaxMessages)
    \/ \E i \in 1..SchedMaxLaunches : AnalysisStart(i)
    \/ \E i \in 1..SchedMaxLaunches, raised \in BOOLEAN,
          r \in ClassifierResults :
             AnalysisReturn(i, raised, r, TRUE)

SpecSched == Init /\ [][SchedNext]_vars

----------------------------------------------------------------------------
(* SpecCorr: audio chunks that are transcribed and final captions; every   *)
(* send succeeds, the connection stays up, the classifier does not raise.  *)

CorrMaxTime == 1
CorrMaxMessages == 4
CorrMaxLaunches == 1

CorrNext ==
    \/ Tick(CorrMaxTime)
    \/ MonitorTick(CorrMaxLaunches)
    \/ \E m \in Messages : RxRecv(m, TRUE, CorrMaxMessages)
    \/ RxTextSteps(TRUE)
    \/ RxAudioSteps(Transcribed, TRUE)
    \/ AnalysisSteps(CorrMaxLaunches, ClassifierResults)

SpecCorr == Init /\ [][CorrNext]_vars

----------------------------------------------------------------------------
(* SpecPending: a client that starts listening and then streams audio      *)
(* chunks that are transcribed: enough utterances to overflow the pending  *)
(* list while a correction pass is under way.                              *)

PendMaxTime == 1
PendMaxMessages == 14
PendMaxLaunches == 1

\* the n-th message of the client
PendMessage(n) == IF n = 1 THEN StartListening(FALSE) ELSE AudioChunk

PendNext ==
    \/ Tick(PendMaxTime)
    \/ MonitorTick(PendMaxLaunches)
    \/ RxRecv(PendMessage(hist.messages + 1), TRUE, PendMaxMessages)
    \/ RxAudioSteps(Transcribed, TRUE)
    \/ AnalysisSteps(PendMaxLaunches, {SuccessTone("calm", 500)})

SpecPending == Init /\ [][PendNext]_vars

----------------------------------------------------------------------------
(* SpecFifo: the client of SpecCorr, from the state in which it has        *)
(* started listening and FifoPrefilled of its audio chunks have been       *)
(* handled, each transcribed, all within the tick the connection opened    *)
(* in (a state SpecPending reaches): the pending list is about to          *)
(* overflow.                                                               *)

FifoPrefilled == 9
FifoMore == 3
FifoMaxMessages == 1 + FifoPrefilled + FifoMore

\* what the handling of chunk id left: its entry and the events sent for it
PrefilledEntry ==
    [start |-> START_TIME - (AudioChunk.len \div BYTES_PER_TICK),
     end |-> START_TIME, tone_confidence |-> 0]
PrefilledEvents(id) ==
    << Ev("utterance_created", id, "neutral", 0, ""),
       Ev("transcript", id, "neutral", 0, ""),
       Ev("tone_update", id, "neutral", 0, "provisional") >>

FifoInit ==
    /\ samples = <<>> /\ lastOp = NoOp /\ aggResult = NoneResult
    /\ now = START_TIME
    /\ running = TRUE
    /\ buffer = [k \in 1..FifoPrefilled |->
                   [len |-> AudioChunk.len, ts |-> START_TIME]]
    /\ timing = [last_analysis_time |-> 0, last_analyzed_buffer_end |-> 0,
                 last_append_time |-> START_TIME]
    /\ last_tone = NoTone
    /\ tasks = <<>> /\ analysis_task = 0
    /\ monitor = [st |-> "sleep", slept |-> FALSE, cancel |-> FALSE]
    /\ rx = RxIdle
    /\ session = [is_listening |-> TRUE, use_web_speech |-> FALSE]
    /\ udict = [k \in 1..FifoPrefilled |-> PrefilledEntry]
    /\ pending_utterances = [k \in 1..FifoPrefilled |-> k]
    /\ sent = [by_uid |-> [k \in 1..FifoPrefilled |-> PrefilledEvents(k)],
               status |-> "listening", errors |-> 0]
    /\ FilterInit
    /\ hist = [messages |-> 1 + FifoPrefilled, calls |-> 0, evicted |-> {},
               held_back |-> {}, failed |-> {}]

FifoNext ==
    \/ Tick(CorrMaxTime)
    \/ MonitorTick(CorrMaxLaunches)
    \/ \E m \in Messages : RxRecv(m, TRUE, FifoMaxMessages)
    \/ RxTextSteps(TRUE)
    \/ RxAudioSteps(Transcribed, TRUE)
    \/ AnalysisSteps(CorrMaxLaunches, ClassifierResults)

SpecFifo == FifoInit /\ [][FifoNext]_vars

----------------------------------------------------------------------------
(* What the claims about a session speak of.                               *)

\* the analysis tasks that have not finished
InFlight == { i \in DOMAIN tasks : ~(tasks[i].st \in {"done", "cancelled"}) }

\* the events sent for utterance id, in their order
EventsOf(s, id) == IF id \in DOMAIN s.by_uid THEN s.by_uid[id] ELSE <<>>

\* ev is a tone_update sent by on_tone_sample
IsCorrection(ev) == ev.type = "tone_update" /\ ev.task # 0

\* ev is the tone_update the receive loop sends with the tone computed at
\* finalization
IsProvisional(ev) == ev.type = "tone_update" /\ ev.task = 0

\* C1: at every instant at most one analysis task of the connection is
\* unfinished, however many ticks elapse and whenever the classifier
\* answers.
C1_AtMostOneInFlight == Cardinality(InFlight) <= 1

\* a due launch was held back while the classifier call of the first task
\* was outstanding, and the scheduler launched again once it had finished
C1_Witness ==
    /\ "classifier" \in hist.held_back
    /\ Len(tasks) = 2

\* in this step analysis task i leaves on_tone_sample by its last line:
\* every send of the pass succeeded and it was not cancelled
PassCompletes(i) ==
    /\ i \in DOMAIN tasks
    /\ tasks[i].st \in {"classifier", "ots_send", "fb_send"}
    /\ tasks'[i].st = "done" /\ tasks'[i].how = "returned"

\* the entries that were pending when the sample of task i was delivered
PassCopy(i) ==
    IF tasks[i].st = "classifier" THEN pending_utterances ELSE tasks[i].copy

\* task i sent, for utterance id, a tone_update with this label whose
\* confidence is now the recorded confidence of the entry
CorrectedBy(i, id, label) ==
    \E n \in DOMAIN EventsOf(sent', id) :
        LET ev == EventsOf(sent', id)[n]
        IN  /\ ev.type = "tone_update" /\ ev.task = i
            /\ ev.tone = label
            /\ udict'[id].tone_confidence = ev.conf

\* utterance id was announced with the provisional tone neutral, 0
ProvisionalNeutral(s, id) ==
    \E n \in DOMAIN EventsOf(s, id) :
        LET ev == EventsOf(s, id)[n]
        IN  ev.type = "utterance_created" /\ ev.tone = "neutral" /\ ev.conf = 0

\* C2 as stated: when a pass of on_tone_sample completes for a sample of
\* confidence 0.5 or more, every utterance registered with neutral/0 that is
\* still pending and whose window the sample overlaps has been sent a
\* tone_update with the sample's label by this pass, and its recorded
\* confidence is the one that event carries.
C2_AnyOverlapCorrected ==
    [][\A i \in DOMAIN tasks : PassCompletes(i) =>
         LET copy == PassCopy(i)
             s == samples'[Len(samples')]
         IN  \A k \in DOMAIN copy :
               ( /\ s.confidence >= 500
                 /\ ProvisionalNeutral(sent', copy[k])
                 /\ InList(pending_utterances', copy[k])
                 /\ PositiveOverlap(s, udict'[copy[k]].start,
                                       udict'[copy[k]].end) > 0 )
               => CorrectedBy(i, copy[k], s.emotion)
      ]_vars

\* C2 amended: when a pass of on_tone_sample completes for a sample of
\* confidence 0.1 or more, every entry that was pending at delivery with a
\* recorded confidence below 0.3, whose window the sample overlaps and for
\* whose window re-aggregation (overlap ratio 0.05, confidence 0.1) yields a
\* confidence of 0.1 or more, has been sent a tone_update with the
\* re-aggregated label and confidence by this pass, and its recorded
\* confidence is the one that event carries.  (An entry that this pass sent
\* no event for has the recorded confidence it had at delivery.)
C2_QualifiedOverlapCorrected ==
    [][\A i \in DOMAIN tasks : PassCompletes(i) =>
         LET copy == PassCopy(i)
             s == samples'[Len(samples')]
         IN  \A k \in DOMAIN copy :
               LET u == udict'[copy[k]]
                   a == aggregate_for_utterance(samples', u.start, u.end,
                                                5, 100)
                   touched == \E n \in DOMAIN EventsOf(sent', copy[k]) :
                                 EventsOf(sent', copy[k])[n].task = i
               IN  ( /\ s.confidence >= 100
                     /\ touched \/ u.tone_confidence < 300
                     /\ PositiveOverlap(s, u.start, u.end) > 0
                     /\ ~a.isNone /\ a.confidence >= 100 )
                   => /\ CorrectedBy(i, copy[k], a.label)
                      /\ u.tone_confidence = a.confidence
      ]_vars

\* a completed pass has corrected an utterance announced as neutral/0 to
\* calm with the recorded confidence 0.5
C2_Witness ==
    \E i \in DOMAIN tasks, id \in DOMAIN udict :
        /\ tasks[i].st = "done" /\ tasks[i].how = "returned"
        /\ ProvisionalNeutral(sent, id)
        /\ udict[id].tone_confidence = 500
        /\ \E n \in DOMAIN EventsOf(sent, id) :
              LET ev == EventsOf(sent, id)[n]
              IN  /\ ev.task = i /\ ev.origin = "correction"
                  /\ ev.tone = "calm" /\ ev.conf = 500

\* C3: for every utterance, no tone_update with the provisional tone of
\* finalization is sent after a tone_update of on_tone_sample that carries
\* another label.
C3_NoStaleProvisional ==
    \A id \in DOMAIN sent.by_uid :
        \A j, k \in DOMAIN sent.by_uid[id] :
            ( /\ j < k
              /\ IsCorrection(sent.by_uid[id][j])
              /\ IsProvisional(sent.by_uid[id][k]) )
            => sent.by_uid[id][k].tone = sent.by_uid[id][j].tone

\* the last n utterance ids of the registrations so far, oldest first
LastRegistered(n) == [k \in 1..n |-> Len(udict) - n + k]

\* C4: the pending list holds the most recently registered utterances, at
\* most 10 of them, in registration order, whatever confidence they have
\* reached, and no error event was sent.
C4_PendingFifo ==
    /\ Len(pending_utterances) <= 10
    /\ pending_utterances = LastRegistered(Min(Len(udict), 10))
    /\ sent.errors = 0

\* an 11th utterance was registered and the oldest evicted, with its
\* confidence 0, while the list held an entry corrected to 0.3 or more,
\* an audio-derived and a text-derived entry
C4_Witness ==
    /\ Len(udict) >= 11
    /\ 1 \in hist.evicted /\ ~InList(pending_utterances, 1)
    /\ udict[1].tone_confidence = 0
    /\ \E k \in DOMAIN pending_utterances :
          udict[pending_utterances[k]].tone_confidence >= 300
    /\ \E k \in DOMAIN pending_utterances :
          udict[pending_utterances[k]].end
             - udict[pending_utterances[k]].start = TEXT_WINDOW
    /\ \E k \in DOMAIN pending_utterances :
          udict[pending_utterances[k]].end
             - udict[pending_utterances[k]].start # TEXT_WINDOW

\* C5: every tone_update of on_tone_sample is for an utterance that was in
\* the pending list when it was sent.
C5_NoCorrectionAfterEviction ==
    \A id \in DOMAIN sent.by_uid :
        \A k \in DOMAIN sent.by_uid[id] :
            IsCorrection(sent.by_uid[id][k]) => sent.by_uid[id][k].listed

\* the monitor task and every analysis task have ended
AllEnded ==
    /\ monitor.st \in {"done", "cancelled"}
    /\ \A i \in DOMAIN tasks : tasks[i].st \in {"done", "cancelled"}

\* C6: when stop() clears the audio window and the handler returns, the
\* monitor task and every analysis task have ended, and from then on no
\* classifier call is started, no sample is added to the store, no task
\* takes a step and nothing is sent.
C6_TeardownQuiesces ==
    [][ (rx'.pc = "closed") =>
           /\ AllEnded
           /\ tasks' = tasks /\ monitor' = monitor
           /\ hist'.calls = hist.calls
           /\ samples' = samples
           /\ udict' = udict
           /\ sent' = sent
      ]_vars

\* the connection was torn down with an analysis task suspended on a send
\* of on_tone_sample and the monitor asleep: both were cancelled
C6_Witness ==
    /\ rx.pc = "closed"
    /\ monitor.st = "cancelled"
    /\ \E i \in DOMAIN tasks :
          /\ tasks[i].st = "cancelled"
          /\ tasks[i].how \in {"ots_send", "fb_send"}

----------------------------------------------------------------------------
(* SpecWindow: a ProsodyBuffer on its own, fed chunks at arbitrary times.  *)
(* It starts from a window already holding two bursts of chunks, the       *)
(* second one WinGaps after the first, few or close to the capacity of     *)
(* the deque.  Every chunk has a length of its own, which tells the        *)
(* chunks apart.                                                           *)

WinSmall == 1
WinMaxTime == 26
WinMaxAppends == 2

WinCounts == (0..WinSmall) \cup ((BUFFER_MAXLEN - WinSmall)..BUFFER_MAXLEN)
WinGaps == {1, WINDOW_SIZE \div 2, WINDOW_SIZE - (WINDOW_SIZE \div 2)}

\* the k-th chunk a client sends
WinChunkLen(k) == MIN_CHUNK_BYTES + k

WinInit ==
    /\ samples = <<>> /\ lastOp = NoOp /\ aggResult = NoneResult
    /\ running = FALSE
    /\ last_tone = NoTone
    /\ tasks = <<>> /\ analysis_task = 0
    /\ monitor = [st |-> "none", slept |-> FALSE, cancel |-> FALSE]
    /\ rx = [pc |-> "none"]
    /\ session = [is_listening |-> FALSE, use_web_speech |-> FALSE]
    /\ udict = <<>> /\ pending_utterances = <<>>
    /\ sent = NothingSent
    /\ FilterInit
    /\ \E n1 \in WinCounts, n2 \in WinCounts, g \in WinGaps :
          /\ n1 + n2 <= BUFFER_MAXLEN
          /\ now = START_TIME + g
          /\ buffer = [k \in 1..(n1 + n2) |->
                         [len |-> WinChunkLen(k),
                          ts |-> IF k <= n1 THEN START_TIME
                                 ELSE START_TIME + g]]
          /\ timing = [last_analysis_time |-> 0,
                       last_analyzed_buffer_end |-> 0,
                       last_append_time |->
                           IF n2 > 0 THEN START_TIME + g
                           ELSE IF n1 > 0 THEN START_TIME ELSE 0]
          /\ hist = [messages |-> n1 + n2, appends |-> 0]

\* time passes between two calls
WinAdvance(d) ==
    /\ now + d <= START_TIME + WinMaxTime
    /\ now' = now + d
    /\ UNCHANGED <<aggVars, signVars, bufVars, rx, session, udict,
                   pending_utterances, sent, hist>>

\* await prosody_buffer.append_chunk(audio_bytes)
AppendChunk ==
    /\ hist.appends < WinMaxAppends
    /\ ~LockHeld
    /\ buffer' = append_chunk(buffer, WinChunkLen(hist.messages + 1), now)
    /\ timing' = [timing EXCEPT !.last_append_time = now]
    /\ lastOp' = [op |-> "append_chunk", before |-> buffer, t |-> now,
                  len |-> WinChunkLen(hist.messages + 1)]
    /\ hist' = [hist EXCEPT !.messages = @ + 1, !.appends = @ + 1]
    /\ UNCHANGED <<samples, aggResult, signVars, now, running, last_tone,
                   tasks, analysis_task, monitor, rx, session, udict,
                   pending_utterances, sent>>

WinNext ==
    \/ \E d \in WinGaps : WinAdvance(d)
    \/ AppendChunk

SpecWindow == WinInit /\ [][WinNext]_vars

\* the chunks of buf stamped cutoff or later, in their order
NotOlderThan(buf, cutoff) ==
    LET Kept(c) == c.ts >= cutoff IN SelectSeq(buf, Kept)

\* the last n elements of seq
LastN(seq, n) ==
    IF Len(seq) <= n THEN seq ELSE SubSeq(seq, Len(seq) - n + 1, Len(seq))

\* what the claim expects the window to hold after the last append
ExpectedWindow ==
    Append(NotOlderThan(lastOp.before, lastOp.t - WINDOW_SIZE),
           [len |-> lastOp.len, ts |-> lastOp.t])

\* C11 as stated: after an append at time t the window holds exactly the
\* earlier chunks stamped t - window_size or later, followed by the new
\* chunk, and at most 100 chunks.
C11_WindowExact ==
    lastOp.op = "append_chunk" =>
        /\ buffer = ExpectedWindow
        /\ Len(buffer) <= BUFFER_MAXLEN

\* C11 amended: after an append at time t the window holds the last 100
\* of: the earlier chunks stamped t - window_size or later, in arrival
\* order, followed by the new chunk.
C11_WindowLastHundred ==
    lastOp.op = "append_chunk" =>
        /\ buffer = LastN(ExpectedWindow, BUFFER_MAXLEN)
        /\ Len(buffer) <= BUFFER_MAXLEN

\* an append into a full window of chunks that are all recent enough to
\* stay: the oldest of them was dropped
C11_Witness ==
    /\ lastOp.op = "append_chunk"
    /\ Len(lastOp.before) = BUFFER_MAXLEN
    /\ lastOp.before[1].ts >= lastOp.t - WINDOW_SIZE
    /\ buffer = Tail(lastOp.before) \o
                   <<[len |-> lastOp.len, ts |-> lastOp.t]>>
    /\ Len(buffer) = BUFFER_MAXLEN

----------------------------------------------------------------------------
(* What the classifier is handed.                                          *)

\* task i calls the classifier in this step
ClassifierCalled(i) ==
    /\ i \in DOMAIN tasks
    /\ tasks[i].st = "created"
    /\ tasks'[i].st = "classifier"

\* C12: every classifier call receives at most HUME_MAX_BYTES bytes, and
\* they are the last bytes of the concatenation, in arrival order, of the
\* chunks buffered when the analysis started.
C12_LastBytesOnly ==
    [][\A i \in DOMAIN tasks' :
          ClassifierCalled(i) =>
              /\ tasks'[i].window_len <= HUME_MAX_BYTES
              /\ tasks'[i].window_len >= 0 /\ tasks'[i].window_from >= 0
              /\ tasks'[i].window_from + tasks'[i].window_len
                    = TotalBytes(buffer)
              /\ tasks'[i].window_from > 0
                    => tasks'[i].window_len = HUME_MAX_BYTES]_vars

\* a call on a window of more than HUME_MAX_BYTES: the audio handed over
\* starts inside a chunk and ends with the newest chunk
C12_Witness ==
    \E i \in DOMAIN tasks :
        /\ tasks[i].st = "classifier"
        /\ tasks[i].window_len = HUME_MAX_BYTES
        /\ tasks[i].window_from > 0
        /\ tasks[i].window_from % AudioChunk.len # 0
        /\ tasks[i].buffer_end = buffer[Len(buffer)].ts

----------------------------------------------------------------------------
(* SpecCadence: test_timing of test_prosody_timing.py.  A ProsodyBuffer    *)
(* with an on_tone_update callback that records the time of each update,   *)
(* an analyzer that answers after CadLatency, one chunk appended every     *)
(* CadChunkPeriod, CadChunks chunks in all, then CadTail of silence.  The  *)
(* monitor loop takes its turn once in every tick.                         *)

CadChunkLen == 10000
CadChunkPeriod == 10
CadChunks == 5
CadLatency == 2
CadTail == 20
CadMaxLaunches == 8
CadMaxTime == CadChunks * CadChunkPeriod + CadTail

\* buffer.start() has been awaited
CadInit ==
    /\ samples = <<>> /\ lastOp = NoOp /\ aggResult = NoneResult
    /\ now = START_TIME
    /\ running = TRUE
    /\ buffer = <<>>
    /\ timing = [last_analysis_time |-> 0, last_analyzed_buffer_end |-> 0,
                 last_append_time |-> 0]
    /\ last_tone = NoTone
    /\ tasks = <<>> /\ analysis_task = 0
    /\ monitor = [st |-> "sleep", slept |-> FALSE, cancel |-> FALSE]
    /\ rx = [pc |-> "none"]
    /\ session = [is_listening |-> FALSE, use_web_speech |-> FALSE]
    /\ udict = <<>> /\ pending_utterances = <<>>
    /\ sent = NothingSent
    /\ FilterInit
    /\ hist = [messages |-> 0, calls |-> 0, evicted |-> {},
               held_back |-> {}, failed |-> {}, updates_received |-> <<>>]

\* the test's loop is about to append its next chunk
CadChunkDue ==
    /\ hist.messages < CadChunks
    /\ now = START_TIME + CadChunkPeriod * hist.messages

\* await buffer.append_chunk(fake_audio)
CadAppend ==
    /\ CadChunkDue
    /\ ~LockHeld
    /\ buffer' = append_chunk(buffer, CadChunkLen, now)
    /\ timing' = [timing EXCEPT !.last_append_time = now]
    /\ hist' = [hist EXCEPT !.messages = @ + 1]
    /\ UNCHANGED <<aggVars, signVars, now, running, last_tone, tasks,
                   analysis_task, monitor, rx, session, udict,
                   pending_utterances, sent>>

\* the analyzer of task i is still asleep
CadAnalyzerBusy(i) ==
    tasks[i].st = "classifier"
        => now < timing.last_analysis_time + CadLatency

\* 0.1 s pass once everything that was due in this tick has run
CadTick ==
    /\ ~CadChunkDue
    /\ ~monitor.slept
    /\ \A i \in DOMAIN tasks :
          tasks[i].st # "created" /\ CadAnalyzerBusy(i)
    /\ Tick(CadMaxTime)

\* mock_tone_analyzer returns
CadReturn(i) ==
    /\ i \in DOMAIN tasks
    /\ ~CadAnalyzerBusy(i)
    /\ AnalysisReturn(i, FALSE, SuccessTone("testing", 800), TRUE)

CadNext ==
    \/ CadAppend
    \/ CadTick
    \/ MonitorTick(CadMaxLaunches)
    \/ \E i \in 1..CadMaxLaunches : AnalysisStart(i)
    \/ \E i \in 1..CadMaxLaunches : CadReturn(i)

SpecCadence == CadInit /\ [][CadNext]_vars

\* the test is over: its last sleep has ended and no task is left
CadOver ==
    /\ now = START_TIME + CadMaxTime
    /\ ~monitor.slept
    /\ \A i \in DOMAIN tasks : tasks[i].st = "done"

\* C13: with one chunk appended per second and an interval of 0.8 s the
\* tone updates follow the interval: at the end of the test at least two
\* updates were received and their average spacing is strictly between
\* 0.7 s and 0.9 s.
C13_UpdatesFollowInterval ==
    CadOver =>
        LET u == hist.updates_received
            n == Len(u)
        IN  /\ n >= 2
            /\ 7 * (n - 1) < u[n] - u[1]
            /\ u[n] - u[1] < 9 * (n - 1)

----------------------------------------------------------------------------
(* What the claims about a failing classifier speak of.                    *)

\* the tasks whose classifier call failed
FailedTasks == { f.task : f \in hist.failed }

\* this step is a turn of the monitor loop
MonitorTurn == monitor.slept /\ ~monitor'.slept

C15_FailureReusesLastGood ==
    [][\A f \in hist'.failed \ hist.failed :
          IF last_tone.primary_tone # ""
          THEN /\ samples' # samples
               /\ LET s == samples'[Len(samples')]
                  IN  /\ s.emotion = last_tone.primary_tone
                      /\ s.confidence = last_tone.confidence
                      /\ s.end_time = tasks[f.task].buffer_end
          ELSE samples' = samples]_vars

\* C16: a classifier failure is not surfaced: the step in which a call
\* fails sends no error event and leaves the receive loop and the session
\* as they were.
C16_FailureNotSurfaced ==
    [][hist'.failed # hist.failed =>
          /\ sent'.errors = sent.errors
          /\ rx' = rx
          /\ session' = session]_vars

\* after a failed call the receive loop has taken another message, and no
\* error event was ever sent
C16_Witness ==
    /\ \E f \in hist.failed : f.messages < hist.messages
    /\ sent.errors = 0
    /\ rx.pc = "recv"

----------------------------------------------------------------------------
(* SpecMalformed: a client that starts listening in either mode and sends  *)
(* audio chunks, some of them malformed: a payload base64 cannot decode,   *)
(* an empty payload, a payload one byte under the minimum. Every send      *)
(* succeeds and the connection stays up.                                   *)

MalMaxMessages == 5

Undecodable == [type |-> "audio_chunk", decodable |-> FALSE, len |-> 0]
EmptyChunk == [type |-> "audio_chunk", decodable |-> TRUE, len |-> 0]
ShortChunk ==
    [type |-> "audio_chunk", decodable |-> TRUE, len |-> MIN_CHUNK_BYTES - 1]

MalformedChunks == {Undecodable, EmptyChunk, ShortChunk}

MalMessages ==
    {StartListening(FALSE), StartListening(TRUE), AudioChunk}
        \cup MalformedChunks

MalNext ==
    \/ \E m \in MalMessages : RxRecv(m, TRUE, MalMaxMessages)
    \/ RxAudioSteps(Transcribed, TRUE)

SpecMalformed == Init /\ [][MalNext]_vars

\* this step takes a malformed chunk from a listening client
TakesMalformed ==
    /\ session.is_listening
    /\ \E m \in MalformedChunks : RxRecv(m, TRUE, MalMaxMessages)

\* this step decodes and measures a malformed chunk
DecodesMalformed ==
    /\ rx.pc = "a_processing_sent"
    /\ ~rx.decodable \/ rx.len < MIN_CHUNK_BYTES
    /\ RxAudioDecode(TRUE)

\* C17: a malformed audio chunk is dropped silently in every mode: the
\* steps that handle it append nothing to the window, create no utterance
\* and send no error event, and the loop is back at its receive after them.
C17_MalformedDroppedSilently ==
    [][/\ TakesMalformed =>
            /\ buffer' = buffer
            /\ udict' = udict /\ pending_utterances' = pending_utterances
            /\ sent'.errors = sent.errors
            /\ rx'.pc \in {"recv", "a_processing_sent"}
       /\ DecodesMalformed =>
            /\ buffer' = buffer
            /\ udict' = udict /\ pending_utterances' = pending_utterances
            /\ sent'.errors = sent.errors
            /\ rx'.pc = "recv"]_vars

----------------------------------------------------------------------------
(* SpecOrder: the aggregator alone, with samples that end early in the     *)
(* session or OrdFarSecond seconds into it, added in any order: the later  *)
(* ones are more than the retention span younger than the early ones.      *)
(* The run is followed up to its first query, and the samples added are    *)
(* remembered in the order of their adding.                                *)

OrdFarSecond == 12
OrdMaxStore == 2

OrdEndSeconds == {1, 2, OrdFarSecond}

OrdSamples ==
    { ToneSample((e - 1) * TICKS_PER_SECOND, e * TICKS_PER_SECOND, l, c) :
        <<e, l, c>> \in OrdEndSeconds \X AggLabels \X AggConfidences }

OrdWindows ==
    { w \in ({0} \cup { e * TICKS_PER_SECOND : e \in OrdEndSeconds })
              \X { e * TICKS_PER_SECOND : e \in OrdEndSeconds } :
        w[1] < w[2] }

OrdInit ==
    /\ samples = <<>>
    /\ lastOp = [op |-> "none", added |-> <<>>]
    /\ aggResult = NoneResult
    /\ Idle

OrdAddSample(s) ==
    /\ lastOp.op # "aggregate"
    /\ Len(lastOp.added) < OrdMaxStore
    /\ samples' = add_sample(samples, s)
    /\ lastOp' = [op |-> "add_sample", added |-> Append(lastOp.added, s)]
    /\ UNCHANGED <<aggResult, bufVars, sessVars, signVars>>

OrdAggregate(w, p) ==
    /\ lastOp.op # "aggregate"
    /\ aggResult' = aggregate_for_utterance(samples, w[1], w[2], p[1], p[2])
    /\ lastOp' = [op |-> "aggregate", a |-> w[1], b |-> w[2],
                  ratio |-> p[1], min_confidence |-> p[2],
                  added |-> lastOp.added]
    /\ UNCHANGED <<samples, bufVars, sessVars, signVars>>

OrdNext ==
    \/ \E s \in OrdSamples : OrdAddSample(s)
    \/ \E w \in OrdWindows, p \in AggParams : OrdAggregate(w, p)

SpecOrder == OrdInit /\ [][OrdNext]_vars

\* the orders in which n samples can be added
Orders(n) ==
    { f \in [1..n -> 1..n] : \A i, j \in 1..n : i # j => f[i] # f[j] }

\* the store after the samples of adds were added in that order
RECURSIVE StoreAfter(_)
StoreAfter(adds) ==
    IF adds = <<>> THEN <<>>
    ELSE add_sample(StoreAfter(SubSeq(adds, 1, Len(adds) - 1)),
                    adds[Len(adds)])

\* the two stores hold the same samples, each as many times
SameSamples(s, t) ==
    /\ Len(s) = Len(t)
    /\ \A i \in 1..Len(s) :
          Cardinality({ k \in 1..Len(s) : s[k] = s[i] })
              = Cardinality({ k \in 1..Len(t) : t[k] = s[i] })

\* the query of lastOp put to another store
SameQuery(store) ==
    aggregate_for_utterance(store, lastOp.a, lastOp.b,
                            lastOp.ratio, lastOp.min_confidence)

\* r is the result again, up to the choice among labels that the samples
\* of set give exactly the same weight
SameUpToTies(r, set) ==
    /\ r.isNone = aggResult.isNone
    /\ r.confidence = aggResult.confidence
    /\ \/ r.label = aggResult.label
       \/ LabelWeight(set, r.label, lastOp.a, lastOp.b)
            = LabelWeight(set, aggResult.label, lastOp.a, lastOp.b)

----------------------------------------------------------------------------
(* StabilityFilter of the sign recognizer: a deque of the last window_size *)
(* accepted signs (None for a prediction under the threshold) and the sign *)
(* announced last.  SpecFilter feeds it every sequence of predictions over *)
(* two signs with a confidence at the threshold or just under it, and logs *)
(* each prediction with the dict update returned for it.                   *)

CONFIDENCE_THRESHOLD == 700
FilterWindow == 3
FilterMaxUpdates == 8

FilterSigns == {"Hello", "Yes"}
FilterConfidences == {CONFIDENCE_THRESHOLD - 1, CONFIDENCE_THRESHOLD}

\* the test of a variant that accepts only confidences above the threshold
AcceptedAbove(confidence) == confidence > CONFIDENCE_THRESHOLD

\* confidence >= self.threshold
Accepted(confidence) == confidence >= CONFIDENCE_THRESHOLD

\* deque(maxlen=window_size).append
DequeAppend(h, x) ==
    IF Len(h) = FilterWindow THEN Append(Tail(h), x) ELSE Append(h, x)

\* is_stable, on the history after the append
is_stable(h) ==
    /\ Len(h) = FilterWindow
    /\ Cardinality({ h[i] : i \in DOMAIN h }) = 1
    /\ h[1] # NoSign

\* is_new_sign of a variant that does not compare with the current sign
is_new_sign_whenever_stable(h, cur) == is_stable(h)

\* is_new_sign: stable, and stable_sign != self._current_sign
is_new_sign(h, cur) == is_stable(h) /\ h[1] # cur

\* StabilityFilter.update(sign, confidence)
update(sign, confidence) ==
    /\ Len(updates) < FilterMaxUpdates
    /\ LET h == DequeAppend(history,
                            IF Accepted(confidence) THEN sign ELSE NoSign)
       IN  /\ history' = h
           /\ current_sign' = IF is_new_sign(h, current_sign)
                              THEN h[1] ELSE current_sign
           /\ updates' = Append(updates,
                            [sign |-> sign, confidence |-> confidence,
                             is_stable |-> is_stable(h),
                             is_new_sign |-> is_new_sign(h, current_sign),
                             out |-> IF is_stable(h) THEN h[1] ELSE sign])
    /\ UNCHANGED <<aggVars, bufVars, sessVars>>

FilterSpecInit ==
    /\ samples = <<>> /\ lastOp = NoOp /\ aggResult = NoneResult
    /\ Idle

FilterNext ==
    \E sign \in FilterSigns, confidence \in FilterConfidences :
        update(sign, confidence)

SpecFilter == FilterSpecInit /\ [][FilterNext]_vars

\* update k had a confidence at or over the threshold
Confident(k) == updates[k].confidence >= CONFIDENCE_THRESHOLD

\* the last window_size updates up to k, k included
LastWindow(k) == { j \in 1..k : j > k - FilterWindow }

\* the last window_size updates up to k were that many, all confident and
\* all of the sign of update k
WindowMatches(k) ==
    /\ k >= FilterWindow
    /\ \A j \in LastWindow(k) :
          Confident(j) /\ updates[j].sign = updates[k].sign

\* update k breaks a streak: it is under the threshold, or names another
\* sign than the update before it
Breaks(k) ==
    \/ ~Confident(k)
    \/ k > 1 /\ updates[k].sign # updates[k - 1].sign

\* C19: update reports is_stable exactly when the last window_size updates,
\* this one included, were all confident and all named the same sign; while
\* an update under the threshold, or a pair of updates naming different
\* signs, is among them, is_stable is false.
C19_StableIffWindowMatches ==
    \A k \in 1..Len(updates) :
        /\ updates[k].is_stable <=> WindowMatches(k)
        /\ updates[k].is_stable =>
              \A j \in LastWindow(k) :
                  Breaks(j) => j = k - FilterWindow + 1 /\ Confident(j)

\* a stable sign, one update under the threshold, and the same sign stable
\* again at the update that completes a new window, not before
C19_Witness ==
    /\ Len(updates) = 2 * FilterWindow + 1
    /\ updates[FilterWindow].is_stable
    /\ ~Confident(FilterWindow + 1)
    /\ \A k \in (FilterWindow + 1)..(2 * FilterWindow) : ~updates[k].is_stable
    /\ updates[2 * FilterWindow + 1].is_stable
    /\ updates[2 * FilterWindow + 1].out = updates[FilterWindow].out

\* the sign announced by the last is_new_sign update before update k, None
\* when there was none
RECURSIVE Announced(_)
Announced(k) ==
    IF k = 0 THEN NoSign
    ELSE IF updates[k].is_new_sign THEN updates[k].out
    ELSE Announced(k - 1)

\* C20: update reports is_new_sign exactly on the stable updates whose
\* stable sign is not the one announced by the previous is_new_sign update
\* (none announced counts as different), and the sign it returns on a
\* stable update is the stable sign.
C20_NewSignIffChanged ==
    \A k \in 1..Len(updates) :
        /\ updates[k].is_new_sign <=>
              /\ WindowMatches(k)
              /\ updates[k].sign # Announced(k - 1)
        /\ WindowMatches(k) => updates[k].out = updates[k].sign

\* a sign is announced, continues without being announced again, and
\* another sign that becomes stable is announced and returned
C20_Witness ==
    /\ Len(updates) = 2 * FilterWindow + 1
    /\ updates[FilterWindow].is_new_sign
    /\ updates[FilterWindow + 1].is_stable
    /\ ~updates[FilterWindow + 1].is_new_sign
    /\ updates[2 * FilterWindow + 1].is_new_sign
    /\ updates[2 * FilterWindow + 1].out # updates[FilterWindow].out
    /\ current_sign = updates[2 * FilterWindow + 1].out

----------------------------------------------------------------------------
(* sign_detection, the WebSocket of the sign recognizer (ml/ws_server.py). *)
(* SpecFrames: a client that sends a message every FramePeriods'th of a    *)
(* second or every second, as the two rate tests do: frames whose payload  *)
(* is empty, is not base64, makes decode_frame raise or is an image, and   *)
(* now and then something that is no frame.  Every send succeeds and the   *)
(* model is loaded.  Here session holds keypoint_buffer's length and       *)
(* frames_processed, sent the error messages sent and the type of the last *)
(* event, hist the client's pace and what it has sent.                     *)

SEQUENCE_LENGTH == 30
RATE_LIMIT_FRAMES == 60
RATE_LIMIT_TICKS == 100
FrameMaxFrames == 61
FrameMaxOthers == 1
FrameMaxPredictions == 2

FramePeriods == {1, TICKS_PER_SECOND}

RateLimitError == "Rate limit exceeded: 60 frames per 10 seconds"

InvalidJSON == [type |-> "invalid_json", frame |-> ""]
Ping == [type |-> "ping", frame |-> ""]
Frame(payload) == [type |-> "frame", frame |-> payload]

FrameMessages ==
    {InvalidJSON, Ping}
      \cup { Frame(p) : p \in {"", "not_base64", "data:no_comma", "image"} }

\* model.predict and argmax: the sign and its confidence
FramePredictions == FilterSigns \X FilterConfidences

\* the inline stability test of sign_detection, after the append
InlineStable(h, confidence) ==
    /\ Accepted(confidence)
    /\ Len(h) = FilterWindow
    /\ Cardinality({ h[i] : i \in DOMAIN h }) = 1

\* websocket.send_json({"type": "error", "message": message})
SendError(message) ==
    sent' = [errors |-> sent.errors \cup {message}, last |-> "error"]

\* sign_detection up to the receive loop, and a client of period ticks
SignInit ==
    /\ samples = <<>> /\ lastOp = NoOp /\ aggResult = NoneResult
    /\ running = FALSE /\ buffer = <<>>
    /\ timing = [last_analysis_time |-> 0, last_analyzed_buffer_end |-> 0,
                 last_append_time |-> 0]
    /\ last_tone = NoTone
    /\ tasks = <<>> /\ analysis_task = 0
    /\ monitor = [st |-> "none", slept |-> FALSE, cancel |-> FALSE]
    /\ udict = <<>> /\ pending_utterances = <<>>
    /\ FilterInit
    /\ now = 0
    /\ rx = [pc |-> "recv"]
    /\ session = [keypoint_buffer |-> 0, frames_processed |-> 0]
    /\ sent = [errors |-> {}, last |-> ""]
    /\ \E period \in FramePeriods :
          hist = [period |-> period, frames |-> 0, others |-> 0,
                  first_frame |-> 0, waited |-> TRUE]

\* the client lets its period pass before it sends again
ClientPace ==
    /\ ~hist.waited
    /\ now' = now + hist.period
    /\ hist' = [hist EXCEPT !.waited = TRUE]
    /\ UNCHANGED <<aggVars, bufVars, signVars, rx, session, udict,
                   pending_utterances, sent>>

\* one turn of the receive loop: message m, and what the model predicts
\* if the turn gets that far
SignRecv(m, prediction) ==
    /\ rx.pc = "recv"
    /\ hist.waited
    /\ IF m.type = "frame"
       THEN /\ hist.frames < FrameMaxFrames
            /\ hist' = [hist EXCEPT !.waited = FALSE, !.frames = @ + 1,
                                  !.first_frame = IF hist.frames = 0
                                                  THEN now ELSE @]
       ELSE /\ hist.others < FrameMaxOthers
            /\ hist' = [hist EXCEPT !.waited = FALSE, !.others = @ + 1]
    /\ IF m.type = "invalid_json"
       THEN /\ SendError("Invalid JSON")
            /\ UNCHANGED <<session, signVars>>
       ELSE IF m.type # "frame"
       THEN /\ SendError("Unknown message type")
            /\ UNCHANGED <<session, signVars>>
       ELSE IF m.frame = ""
       THEN UNCHANGED <<sent, session, signVars>>
       ELSE IF m.frame = "data:no_comma"
       THEN /\ SendError("Failed to decode frame")
            /\ UNCHANGED <<session, signVars>>
       ELSE IF m.frame # "image"
       THEN UNCHANGED <<sent, session, signVars>>
       ELSE /\ session.frames_processed
                 < SEQUENCE_LENGTH - 1 + FrameMaxPredictions
            /\ session' =
                 [keypoint_buffer |->
                      Min(session.keypoint_buffer + 1, SEQUENCE_LENGTH),
                  frames_processed |-> session.frames_processed + 1]
            /\ IF session'.keypoint_buffer < SEQUENCE_LENGTH
               THEN /\ sent' = [sent EXCEPT !.last = "buffering"]
                    /\ UNCHANGED signVars
               ELSE LET sign == prediction[1]
                        confidence == prediction[2]
                        h == DequeAppend(history,
                                 IF Accepted(confidence) THEN sign
                                 ELSE NoSign)
                    IN  /\ history' = h
                        /\ current_sign' =
                             IF InlineStable(h, confidence)
                                /\ h[1] # current_sign
                             THEN h[1] ELSE current_sign
                        /\ sent' = [sent EXCEPT !.last = "sign_prediction"]
                        /\ UNCHANGED updates
    /\ UNCHANGED <<aggVars, bufVars, now, rx, udict, pending_utterances>>

FramesNext ==
    \/ ClientPace
    \/ \E m \in FrameMessages, prediction \in FramePredictions :
          SignRecv(m, prediction)

SpecFrames == SignInit /\ [][FramesNext]_vars

\* the client has sent more than 60 frames within 10 seconds
OverTheLimit ==
    /\ hist.frames > RATE_LIMIT_FRAMES
    /\ now - hist.first_frame < RATE_LIMIT_TICKS

\* C21: a client that has sent more than 60 frames within 10 seconds has
\* received an error event naming the limit "60 frames per 10 seconds",
\* and a client that sends one message per second receives none.
C21_RateLimited ==
    /\ (OverTheLimit /\ rx.pc = "recv") => RateLimitError \in sent.errors
    /\ hist.period = TICKS_PER_SECOND => ~(RateLimitError \in sent.errors)

----------------------------------------------------------------------------
(* SpecLaunch: the client and the classifier of SpecSched, with a          *)
(* ProsodyBuffer constructed with a tone_analyzer or without one.          *)

LaunchInit ==
    /\ samples = <<>> /\ lastOp = NoOp /\ aggResult = NoneResult
    /\ now = START_TIME
    /\ running = TRUE
    /\ buffer = <<>>
    /\ \E configured \in BOOLEAN :
          timing = [last_analysis_time |-> 0, last_analyzed_buffer_end |-> 0,
                    last_append_time |-> 0, tone_analyzer |-> configured]
    /\ last_tone = NoTone
    /\ tasks = <<>> /\ analysis_task = 0
    /\ monitor = [st |-> "sleep", slept |-> FALSE, cancel |-> FALSE]
    /\ rx = RxIdle
    /\ session = [is_listening |-> FALSE, use_web_speech |-> FALSE]
    /\ udict = <<>> /\ pending_utterances = <<>>
    /\ sent = NothingSent
    /\ FilterInit
    /\ hist = [messages |-> 0, calls |-> 0, evicted |-> {},
               held_back |-> {}, failed |-> {}]

SpecLaunch == LaunchInit /\ [][SchedNext]_vars

\* this step launches an analysis task
Launches == Len(tasks') = Len(tasks) + 1

\* this step is the start of task i, up to its call of the classifier
Starts(i) == tasks[i].st = "created" /\ tasks'[i].st # "created"

----------------------------------------------------------------------------
(* What a classifier call in flight leaves free to happen.                 *)

\* the tasks whose classifier call has not returned
AtClassifier == { i \in DOMAIN tasks : tasks[i].st = "classifier" }

\* C23: while a classifier call has not returned, the scheduler's sleep
\* can end and its turn can be taken, and an audio chunk that arrives is
\* appended at once, the receive loop going on to its next message.
C23_CallBlocksNothing ==
    AtClassifier # {} =>
        /\ now < START_TIME + SchedMaxTime => ENABLED Tick(SchedMaxTime)
        /\ monitor.slept => ENABLED MonitorTick(SchedMaxLaunches)
        /\ (rx.pc = "recv" /\ hist.messages < SchedMaxMessages) =>
              ENABLED (/\ RxRecv(AudioChunk, TRUE, SchedMaxMessages)
                       /\ session.is_listening =>
                            /\ buffer' = append_chunk(buffer, AudioChunk.len,
                                                      now)
                            /\ rx'.pc = "recv")

\* a call has been in flight for half a second: the scheduler has held a
\* due launch back because of it, and a chunk was appended meanwhile
C23_Witness ==
    \E i \in AtClassifier :
        /\ now >= timing.last_analysis_time + TICKS_PER_SECOND \div 2
        /\ "classifier" \in hist.held_back
        /\ buffer[Len(buffer)].ts > tasks[i].buffer_end

----------------------------------------------------------------------------
(* SpecLatency: a hybrid-mode client that sends its messages in the first *)
(* two ticks of the session or just after the window's length has passed,  *)
(* and one analysis whose classifier may take longer to answer than a      *)
(* chunk stays in the window, so that chunks are appended and evicted      *)
(* while the call is in flight.  Whatever is due in a tick runs before the *)
(* tick ends.                                                              *)

LatMaxTime == 27
LatMaxMessages == 4
LatMaxLaunches == 2

LatResults == {SuccessTone("calm", 500), FailedResult}

\* the ticks, counted from the start, in which the client sends
LatArrivals == {0, 1, WINDOW_SIZE + 1, WINDOW_SIZE + 2}

LatRecv(m) ==
    /\ now - START_TIME \in LatArrivals
    /\ RxRecv(m, TRUE, LatMaxMessages)

\* 0.1 s pass once the monitor's turn and the start of a created task
\* have run
LatTick ==
    /\ ~monitor.slept
    /\ \A i \in DOMAIN tasks : tasks[i].st # "created"
    /\ Tick(LatMaxTime)

LatNext ==
    \/ LatTick
    \/ MonitorTick(LatMaxLaunches)
    \/ \E m \in SchedMessages : LatRecv(m)
    \/ \E i \in 1..LatMaxLaunches : AnalysisStart(i)
    \/ \E i \in 1..LatMaxLaunches, r \in LatResults :
          AnalysisReturn(i, FALSE, r, TRUE)

SpecLatency == Init /\ [][LatNext]_vars

\* what task i captured before its call
Captured(tk) ==
    [buffer_start |-> tk.buffer_start, buffer_end |-> tk.buffer_end,
     window_len |-> tk.window_len]

\* C24: the time range of every sample stored is that of the chunks and
\* the byte count the task captured before it called the classifier: what
\* it captured is the buffer as it was then, stays as it is while the call
\* is in flight, and alone determines the range of the sample.
C24_RangeFromCapture ==
    [][\A i \in DOMAIN tasks :
          /\ (Starts(i) /\ tasks'[i].st = "classifier") =>
                Captured(tasks'[i]) =
                    [buffer_start |-> buffer[1].ts,
                     buffer_end |-> buffer[Len(buffer)].ts,
                     window_len |-> Min(TotalBytes(buffer), HUME_MAX_BYTES)]
          /\ (tasks[i].st = "classifier" /\ tasks'[i].st = "classifier") =>
                Captured(tasks'[i]) = Captured(tasks[i])
          /\ (tasks[i].st = "classifier" /\ samples' # samples) =>
                LET s == samples'[Len(samples')]
                    end == tasks[i].buffer_end
                IN  /\ s.end_time = end
                    /\ s.start_time =
                         Max(tasks[i].buffer_start,
                             end - tasks[i].window_len \div BYTES_PER_TICK)]_vars

\* a sample stored after a call of more than the window's length, during
\* which the oldest chunk analysed was evicted and a new one appended: its
\* range is the one of the chunks analysed, which the buffer no longer has
C24_Witness ==
    /\ Len(samples) = 1 /\ buffer # <<>>
    /\ samples[1].start_time < samples[1].end_time
    /\ samples[1].start_time < buffer[1].ts
    /\ samples[1].end_time < buffer[Len(buffer)].ts
    /\ now - timing.last_analysis_time > WINDOW_SIZE

----------------------------------------------------------------------------
(* SpecEmit: the client of SpecSched and a classifier whose results also   *)
(* lie at the smoothing gate: a confidence of exactly 0.05, one just       *)
(* under it, and a result without a label.                                 *)

EmitResults ==
    ClassifierResults
      \cup {SuccessTone("calm", MIN_EMIT_CONFIDENCE),
            SuccessTone("concern", MIN_EMIT_CONFIDENCE - 1),
            SuccessTone("", 500)}

EmitNext ==
    \/ Tick(SchedMaxTime)
    \/ MonitorTick(SchedMaxLaunches)
    \/ \E m \in SchedMessages : RxRecv(m, TRUE, SchedMaxMessages)
    \/ \E i \in 1..SchedMaxLaunches : AnalysisStart(i)
    \/ \E i \in 1..SchedMaxLaunches, raised \in BOOLEAN, r \in EmitResults :
          AnalysisReturn(i, raised, r, TRUE)

SpecEmit == Init /\ [][EmitNext]_vars

\* C25: no sample in the tone store, and no tone kept for reuse after a
\* failed call, has a confidence under 0.05 or an empty label.
C25_StoredSamplesPassGate ==
    /\ \A k \in 1..Len(samples) :
          /\ samples[k].confidence >= 50
          /\ samples[k].emotion # ""
    /\ last_tone # NoTone =>
          last_tone.confidence >= 50 /\ last_tone.primary_tone # ""

\* a result at exactly 0.05 was stored, and stored again for the pass
\* whose call returned an error
C25_Witness ==
    /\ Len(samples) = 2
    /\ samples[1].confidence = 50 /\ samples[2].confidence = 50
    /\ \E f \in hist.failed : f.task = 2 /\ ~f.raised

----------------------------------------------------------------------------
(* The marker of has_new_audio and the idle limit of has_recent_audio.     *)

\* this step is the return of a classifier call that succeeded
ReturnsSuccess ==
    \E i \in DOMAIN tasks :
        /\ tasks[i].st = "classifier" /\ tasks'[i].st # "classifier"
        /\ hist'.failed = hist.failed

\* C26: has_new_audio is true exactly when the buffer is not empty and its
\* newest chunk arrived after the end of the window analysed last, and that
\* marker advances only in a pass whose analysis succeeded.
C26_MarkerAdvancesOnSuccess ==
    [][/\ has_new_audio <=>
            /\ Len(buffer) > 0
            /\ buffer[Len(buffer)].ts > timing.last_analyzed_buffer_end
       /\ timing'.last_analyzed_buffer_end # timing.last_analyzed_buffer_end
            => ReturnsSuccess]_vars

\* the idle limit of has_recent_audio: max(1.0, 2 x analysis_interval)
IdleLimit ==
    IF 2 * ANALYSIS_INTERVAL > TICKS_PER_SECOND
    THEN 2 * ANALYSIS_INTERVAL ELSE TICKS_PER_SECOND

\* more than the idle limit has passed since the last chunk was appended
Stale == now - timing.last_append_time > IdleLimit

\* C27: once more than max(1.0, 2 x analysis_interval) seconds have passed
\* since the last append, has_recent_audio is false and no step launches
\* an analysis, until a chunk is appended.
C27_NoLaunchOnStaleAudio ==
    [][Stale => ~has_recent_audio /\ ~Launches]_vars

\* a chunk arrived during a call that outlasted the idle limit: it is new,
\* the interval has elapsed and nothing is in flight, and the scheduler has
\* taken a turn without launching
C27_Witness ==
    /\ now - timing.last_append_time > IdleLimit + 1
    /\ has_new_audio /\ should_analyze_now
    /\ Len(tasks) = 1 /\ tasks[1].st = "done"
    /\ ~monitor.slept

----------------------------------------------------------------------------
(* SpecRegister: a client in either mode whose audio chunks and final      *)
(* captions arrive over half a second, and one analysis that succeeds:     *)
(* long enough for a sample to cover the share of an utterance's window    *)
(* that makes its tone confident when the utterance is finalized.          *)

RegMaxTime == 5
RegMaxMessages == 4
RegMaxLaunches == 1

RegMessages == Messages \cup {StartListening(TRUE)}

RegNext ==
    \/ Tick(RegMaxTime)
    \/ MonitorTick(RegMaxLaunches)
    \/ \E m \in RegMessages : RxRecv(m, TRUE, RegMaxMessages)
    \/ RxTextSteps(TRUE)
    \/ RxAudioSteps(Transcribed, TRUE)
    \/ AnalysisSteps(RegMaxLaunches, {SuccessTone("calm", 500)})

SpecRegister == Init /\ [][RegNext]_vars

----------------------------------------------------------------------------
(* What the claims about the pending list speak of.                        *)

\* this step registers an utterance
Registers == Len(udict') = Len(udict) + 1

\* C28: an utterance is registered in the pending list only when the
\* aggregation for its window gave no confident result, that is, with the
\* provisional neutral/0: no step registers an entry with a confidence
\* above 0, and one that finalizes an utterance with a confident tone
\* leaves the pending list as it is.
C28_RegisteredOnlyIfUnconfident ==
    [][Registers =>
          /\ udict'[Len(udict')].tone_confidence = 0
          /\ pending_utterances'[Len(pending_utterances')] = Len(udict')]_vars

----------------------------------------------------------------------------
(* SpecLate: a client that starts listening and streams three audio chunks *)
(* in the first ticks, each transcribed to an utterance; the monitor       *)
(* launches two analyses an interval apart, so that the second sample is   *)
(* delivered to on_tone_sample when the pending entries have been through  *)
(* a first pass.                                                           *)

LateMaxTime == 9
LateMaxMessages == 4
LateMaxLaunches == 2

LateResults ==
    {SuccessTone("concern", 200), SuccessTone("calm", LATE_MIN_CONFIDENCE),
     SuccessTone("calm", MIN_EMIT_CONFIDENCE)}

LateMessages == {StartListening(FALSE), AudioChunk}

\* the ticks, counted from the start, in which the client sends
LateArrivals == {0, 1, 2}

LateRecv(m) ==
    /\ now - START_TIME \in LateArrivals
    /\ RxRecv(m, TRUE, LateMaxMessages)

\* 0.1 s pass once the receive loop is back at its receive, the monitor
\* has had its turn and a created task has started
LateTick ==
    /\ rx.pc = "recv"
    /\ ~monitor.slept
    /\ \A i \in DOMAIN tasks : tasks[i].st # "created"
    /\ Tick(LateMaxTime)

LateNext ==
    \/ LateTick
    \/ MonitorTick(LateMaxLaunches)
    \/ \E m \in LateMessages : LateRecv(m)
    \/ RxAudioSteps(Transcribed, TRUE)
    \/ AnalysisSteps(LateMaxLaunches, LateResults)

SpecLate == Init /\ [][LateNext]_vars

----------------------------------------------------------------------------
(* What the claims about a pass of on_tone_sample speak of.                *)

\* this step hands to send_json an event for utterance id
SendsFor(id) == Len(EventsOf(sent', id)) = Len(EventsOf(sent, id)) + 1

\* the event this step sends for utterance id
NewEvent(id) == EventsOf(sent', id)[Len(EventsOf(sent', id))]

\* task i has sent a tone_update of its overlap loop
HasCorrected(i) ==
    \E id \in DOMAIN sent.by_uid : \E n \in DOMAIN sent.by_uid[id] :
        sent.by_uid[id][n].task = i /\ sent.by_uid[id][n].origin = "correction"

\* the most recent entry of the pending list whose recorded confidence
\* is below 0.2
NewestUnsure(id) ==
    /\ InList(pending_utterances, id)
    /\ udict[id].tone_confidence < 200
    /\ \A k \in DOMAIN pending_utterances :
          (\E j \in DOMAIN pending_utterances :
              j < k /\ pending_utterances[j] = id)
          => udict[pending_utterances[k]].tone_confidence >= 200

\* every event a task of on_tone_sample sends is a correction of the
\* overlap loop for an entry that meets its three conditions and carries
\* the re-aggregated tone, or is the fallback: the sample's own tone for
\* the newest entry below 0.2, sent by a pass that has corrected nothing
OnlyQualifiedCorrected ==
    \A i \in DOMAIN tasks : \A id \in DOMAIN udict :
        (SendsFor(id) /\ NewEvent(id).task = i) =>
            LET ev == NewEvent(id)
                s == samples'[Len(samples')]
                u == udict[id]
                a == aggregate_for_utterance(samples', u.start, u.end, 5, 100)
            IN  \/ /\ ev.origin = "correction"
                   /\ InList(PassCopy(i), id)
                   /\ u.tone_confidence < 300
                   /\ PositiveOverlap(s, u.start, u.end) > 0
                   /\ ~a.isNone /\ a.confidence >= 100
                   /\ ev.tone = a.label /\ ev.conf = a.confidence
                \/ /\ ev.origin = "fallback"
                   /\ ~HasCorrected(i)
                   /\ NewestUnsure(id)
                   /\ ev.tone = s.emotion /\ ev.conf = s.confidence

\* a completed pass for a sample of confidence min_sample or more has sent
\* a correction for every entry that was pending at delivery and meets the
\* three conditions
EveryQualifiedCorrected(min_sample) ==
    \A i \in DOMAIN tasks : PassCompletes(i) =>
        LET copy == PassCopy(i)
            s == samples'[Len(samples')]
        IN  \A k \in DOMAIN copy :
              LET u == udict'[copy[k]]
                  a == aggregate_for_utterance(samples', u.start, u.end,
                                               5, 100)
                  corrected ==
                      \E n \in DOMAIN EventsOf(sent', copy[k]) :
                          LET ev == EventsOf(sent', copy[k])[n]
                          IN  ev.task = i /\ ev.origin = "correction"
              IN  ( /\ s.confidence >= min_sample
                    /\ corrected \/ u.tone_confidence < 300
                    /\ PositiveOverlap(s, u.start, u.end) > 0
                    /\ ~a.isNone /\ a.confidence >= 100 )
                  => corrected

C30_ConfidenceNeverDecreases ==
    [][\A id \in DOMAIN udict :
          /\ udict'[id].tone_confidence >= udict[id].tone_confidence
          /\ (SendsFor(id) /\ NewEvent(id).task # 0) =>
                NewEvent(id).conf >= udict[id].tone_confidence]_vars

\* C31: the fallback is applied only when the window of the new sample
\* overlaps no pending entry at all: no step sends a fallback tone_update
\* for a sample whose window overlaps the window of a pending entry.
C31_FallbackOnlyWithoutOverlap ==
    [][\A id \in DOMAIN udict :
          (SendsFor(id) /\ NewEvent(id).origin = "fallback") =>
              \A k \in DOMAIN pending_utterances :
                  LET u == udict[pending_utterances[k]]
                  IN  PositiveOverlap(samples'[Len(samples')],
                                      u.start, u.end) <= 0]_vars

\* task i has sent a tone_update
HasSent(i) ==
    \E id \in DOMAIN sent.by_uid : \E n \in DOMAIN sent.by_uid[id] :
        sent.by_uid[id][n].task = i

\* C32: a pass that takes the fallback corrects exactly one entry: the
\* most recently created pending entry whose recorded confidence is below
\* 0.2 is sent the one tone_update of the pass, carrying the sample's own
\* label and confidence, and when the send has returned its recorded
\* confidence is the sample's and no other entry has changed; a pass for a
\* sample of 0.1 or more that sends nothing has found no pending entry
\* below 0.2.
C32_FallbackCorrectsNewestUnsure ==
    [][\A i \in DOMAIN tasks :
          /\ \A id \in DOMAIN udict :
                ( /\ SendsFor(id) /\ NewEvent(id).task = i
                  /\ NewEvent(id).origin = "fallback" ) =>
                    LET s == samples'[Len(samples')]
                    IN  /\ NewestUnsure(id)
                        /\ NewEvent(id).tone = s.emotion
                        /\ NewEvent(id).conf = s.confidence
                        /\ ~HasSent(i)
                        /\ \A other \in DOMAIN udict \ {id} : ~SendsFor(other)
                        /\ tasks'[i].st = "fb_send" /\ tasks'[i].cur = id
          /\ (tasks[i].st = "fb_send" /\ PassCompletes(i)) =>
                /\ udict' = [udict EXCEPT ![tasks[i].cur].tone_confidence =
                                samples[Len(samples)].confidence]
                /\ sent' = sent
          /\ ( /\ tasks[i].st = "classifier" /\ PassCompletes(i)
               /\ samples' # samples
               /\ samples'[Len(samples')].confidence >= LATE_MIN_CONFIDENCE ) =>
                \A k \in DOMAIN pending_utterances :
                    udict[pending_utterances[k]].tone_confidence >= 200
      ]_vars

\* the second pass has taken the fallback for an entry that is not the
\* last of the pending list, passing by a newer entry that the first pass
\* had brought to 0.2 or more, and has returned
C32_Witness ==
    \E i \in DOMAIN tasks, id \in DOMAIN udict :
        /\ i = 2 /\ tasks[i].st = "done" /\ tasks[i].how = "returned"
        /\ \E n \in DOMAIN EventsOf(sent, id) :
              /\ EventsOf(sent, id)[n].task = i
              /\ EventsOf(sent, id)[n].origin = "fallback"
              /\ udict[id].tone_confidence = EventsOf(sent, id)[n].conf
        /\ \E k \in DOMAIN pending_utterances :
              /\ pending_utterances[k] > id
              /\ udict[pending_utterances[k]].tone_confidence >= 200
              /\ \E n \in DOMAIN EventsOf(sent, pending_utterances[k]) :
                    EventsOf(sent, pending_utterances[k])[n].task = 1

----------------------------------------------------------------------------
(* SpecFallback: a client in hybrid mode that streams audio chunks and     *)
(* final captions in the first ticks; the windows of the captions are so   *)
(* long that the samples cover too little of them, and the two passes of   *)
(* on_tone_sample are left to the fallback.                                *)

FbMaxTime == 9
FbMaxMessages == 6
FbMaxLaunches == 2

FbResults == {SuccessTone("concern", 200), SuccessTone("calm", LATE_MIN_CONFIDENCE)}

FbMessages == {StartListening(TRUE), AudioChunk, FinalText}

FbRecv(m) ==
    /\ now - START_TIME \in LateArrivals
    /\ RxRecv(m, TRUE, FbMaxMessages)

FbTick ==
    /\ rx.pc = "recv"
    /\ ~monitor.slept
    /\ \A i \in DOMAIN tasks : tasks[i].st # "created"
    /\ Tick(FbMaxTime)

FbNext ==
    \/ FbTick
    \/ MonitorTick(FbMaxLaunches)
    \/ \E m \in FbMessages : FbRecv(m)
    \/ RxTextSteps(TRUE)
    \/ AnalysisSteps(FbMaxLaunches, FbResults)

SpecFallback == Init /\ [][FbNext]_vars

----------------------------------------------------------------------------
(* SpecSendFail: the client of SpecLate on a connection where a send_json  *)
(* of on_tone_sample may raise.                                            *)

SendFailNext ==
    \/ LateTick
    \/ MonitorTick(LateMaxLaunches)
    \/ \E m \in LateMessages : LateRecv(m)
    \/ RxAudioSteps(Transcribed, TRUE)
    \/ \E i \in 1..LateMaxLaunches :
          \/ AnalysisStart(i)
          \/ \E r \in LateResults, ok \in BOOLEAN :
                AnalysisReturn(i, FALSE, r, ok)
          \/ \E ok \in BOOLEAN : AnalysisAfterSend(i, ok)
          \/ AnalysisAfterFallback(i)

SpecSendFail == Init /\ [][SendFailNext]_vars

\* a send_json of the pass of task i raises in this step
SendFails(i) ==
    /\ i \in DOMAIN tasks
    /\ tasks[i].st \in {"classifier", "ots_send"}
    /\ tasks'[i].how = "send_failed"

\* C33: when a send of a correction raises, the sample of the pass is in
\* the store, no event is emitted, no recorded confidence changes but the
\* one of the entry whose earlier send of the same pass has just returned,
\* the task is finished and counts no longer as an analysis in flight; a
\* finished task sends nothing and changes no recorded confidence.
C33_SendFailureContained ==
    [][\A i \in DOMAIN tasks :
          /\ SendFails(i) =>
                /\ samples' # <<>>
                /\ IF tasks[i].st = "classifier"
                   THEN /\ samples' # samples
                        /\ samples'[Len(samples')].end_time
                              = tasks[i].buffer_end
                        /\ udict' = udict
                   ELSE /\ samples' = samples
                        /\ \A id \in DOMAIN udict :
                              id # tasks[i].cur => udict'[id] = udict[id]
                /\ sent' = sent
                /\ ~(i \in InFlight')
                /\ ~PreviousAnalysisRunning'
          /\ (tasks[i].st = "done" /\ tasks[i].how = "send_failed") =>
                /\ tasks'[i] = tasks[i]
                /\ \A id \in DOMAIN udict :
                      SendsFor(id) => NewEvent(id).task # i
      ]_vars

\* a send of the first pass raised after one correction of that pass had
\* been recorded, an entry whose window the sample overlaps is at 0, and
\* the scheduler has launched the second analysis
C33_Witness ==
    /\ Len(tasks) = 2
    /\ tasks[1].st = "done" /\ tasks[1].how = "send_failed"
    /\ Len(samples) >= 1
    /\ \E id \in DOMAIN udict :
          /\ udict[id].tone_confidence = 0
          /\ EventsOf(sent, id) # <<>>
          /\ PositiveOverlap(samples[1], udict[id].start, udict[id].end) > 0
    /\ \E id \in DOMAIN udict : \E n \in DOMAIN EventsOf(sent, id) :
          /\ EventsOf(sent, id)[n].task = 1
          /\ udict[id].tone_confidence = EventsOf(sent, id)[n].conf

\* C34: every status "processing" sent for an audio chunk is followed by a
\* status "listening" before the handler takes the next inbound message:
\* whenever the receive loop is at its receive, the status the client was
\* last sent is not "processing".
C34_ProcessingEndsInListening ==
    rx.pc = "recv" => sent.status # "processing"

\* this step takes an audio_chunk or a text_transcript while is_listening
\* is false
TakesWhileIdle ==
    /\ ~session.is_listening
    /\ \E m \in {AudioChunk, FinalText, InterimText}, ok \in BOOLEAN :
          RxRecv(m, ok, MaxMessages)

\* C35: an audio_chunk or text_transcript taken while is_listening is false
\* is ignored: the step emits nothing, creates no utterance, appends
\* nothing to the audio window and leaves the session state, the
\* transcript-source mode included, as it was; the loop is back at its
\* receive.
C35_IgnoredWhileIdle ==
    [][TakesWhileIdle =>
          /\ sent' = sent
          /\ udict' = udict /\ pending_utterances' = pending_utterances
          /\ buffer' = buffer /\ timing' = timing
          /\ session' = session
          /\ rx'.pc = "recv"]_vars

\* C36: after any sequence of add_sample calls, in any order of end_time,
\* no sample held by the store ends more than the retention span before
\* the largest end_time added so far.
C36_StoreWithinRetention ==
    \A k \in DOMAIN samples : \A j \in DOMAIN lastOp.added :
        samples[k].end_time
            >= lastOp.added[j].end_time - TONE_SAMPLE_RETENTION

\* the ticks of the window [a, b] that at least one sample of the store
\* covers: a stretch covered by several samples counts once
Covered(store, a, b) ==
    Cardinality({ t \in a..(b - 1) :
                    \E k \in DOMAIN store :
                        store[k].start_time <= t /\ t + 1 <= store[k].end_time })

\* C37: aggregate returns a non-neutral result only if the fraction of the
\* utterance's duration that is covered by at least one overlapping sample
\* is at least min_overlap_ratio.
C37_NonNeutralOnlyIfCovered ==
    ( /\ Aggregated
      /\ ~aggResult.isNone
      /\ aggResult # NeutralResult )
    => Covered(samples, lastOp.a, lastOp.b) * 100
           >= (lastOp.b - lastOp.a) * lastOp.ratio

\* C38: every tone sample the scheduler stores covers a non-empty span of
\* time: its start_time is before its end_time.
C38_SampleSpanNonEmpty ==
    \A k \in DOMAIN samples : samples[k].start_time < samples[k].end_time

\* this step adds the sample of task i to the store
StoresSample(i) ==
    /\ i \in DOMAIN tasks
    /\ tasks[i].st = "classifier"
    /\ samples' # samples

\* C39: the samples of a session reach the store with strictly increasing
\* end_time and in the order in which their analyses were launched: the
\* store is ordered by end_time, and the task that adds a sample is the
\* one launched last, every earlier task being finished, with an end_time
\* above every end_time in the store.
C39_SamplesInLaunchOrder ==
    [][/\ \A k \in DOMAIN samples' : \A j \in DOMAIN samples' :
             j < k => samples'[j].end_time < samples'[k].end_time
       /\ \A i \in DOMAIN tasks : StoresSample(i) =>
             /\ i = Len(tasks)
             /\ \A j \in 1..(i - 1) : TaskDone(j)
             /\ samples'[Len(samples')].end_time = tasks[i].buffer_end
             /\ \A k \in DOMAIN samples :
                   samples[k].end_time < tasks[i].buffer_end
      ]_vars

\* the second analysis has added its sample after the first one's
C39_Witness ==
    /\ Len(samples) = 2 /\ Len(tasks) = 2
    /\ tasks[1].st = "done" /\ tasks[2].st = "done"
    /\ samples[1].end_time < samples[2].end_time

\* the positions of the utterance_created events among the events of id
CreatedAt(id) ==
    { n \in DOMAIN EventsOf(sent, id) :
        EventsOf(sent, id)[n].type = "utterance_created" }

====
